---- MODULE Spec2Model ----
(***************************************************************************)
(* Retail offer ranking engine: the relational store, the candidate        *)
(* generator (src/src/candidates.py), the scorer (src/src/score_ranker.py) *)
(* and the daily orchestrator (src/src/daily_run.py) as state machines.    *)
(*                                                                         *)
(* The store is scaled down: a handful of customers, products and offers   *)
(* instead of tens of thousands, and the size constants of config.py       *)
(* (CANDIDATE_POOL_SIZE, TOP_N_RECOMMENDATIONS, batch_size) are scaled     *)
(* with it so that the caps still bind.  The strategy limits are part of   *)
(* the state: the code reads them from a declarative map.                  *)
(***************************************************************************)
EXTENDS Integers, Sequences, FiniteSets, TLC

\* ------------------------------------------------------------------ bounds
NCustomers == 2
NOffers == 5
MaxOrderItems == 1
MaxScore == 1
MaxEdits == 1
MaxScoped == 1
MaxFeatLines == 2
MaxDriftCalls == 2
MaxTrainCalls == 2
MaxImpressions == 2
MaxPairs == 2
MaxDropped == 2

\* ------------------------------------------- program constants (scaled)
\* config.py: CANDIDATE_POOL_SIZE = 200, TOP_N_RECOMMENDATIONS = 10;
\* candidates.py: batch_size = 5000.
CANDIDATE_POOL_SIZE == 3
TOP_N_RECOMMENDATIONS == 2
batch_size == 1

\* ------------------------------------------------------------ sequences
Range(s) == {s[i] : i \in 1..Len(s)}

Min2(a, b) == IF a <= b THEN a ELSE b

\* s[:n] of Python
Take(s, n) == SubSeq(s, 1, Min2(n, Len(s)))

RECURSIVE Concat(_)
Concat(ss) == IF ss = <<>> THEN <<>> ELSE Head(ss) \o Concat(Tail(ss))

\* The elements of a set of integers in ascending order.
RECURSIVE Ascending(_)
Ascending(S) ==
    IF S = {} THEN <<>>
    ELSE LET m == CHOOSE x \in S : \A y \in S : x <= y
         IN <<m>> \o Ascending(S \ {m})

\* ------------------------------------------------------------ the store
Customers == 1..NCustomers
Offers == 1..NOffers
Products == 1..((NOffers + 1) \div 2)
\* The run under study is on day 1 or 2; an earlier run was on the day
\* before.
RunDates == {1, 2}
PrevDate == (CHOOSE d \in RunDates : \A e \in RunDates : d <= e) - 1

Strategies == <<"category_affinity", "business_type_popular", "repeat_purchase",
                "high_margin", "tier_upgrade", "cross_sell", "own_brand_switch">>

\* customers table: one row per customer, immutable.
BusinessTypes == <<"horeca", "trader", "sco", "freelancer">>
BusinessSubtypes == <<"restaurant", "grocery", "office", "artist">>
LoyaltyTiers == <<"gold", "silver", "bronze", "classic">>
customers ==
    [c \in Customers |->
        [customer_id |-> c,
         business_type |-> BusinessTypes[((c - 1) % 4) + 1],
         business_subtype |-> BusinessSubtypes[((c - 1) % 4) + 1],
         home_store_id |-> ((c - 1) % 4) + 1,
         loyalty_tier |-> LoyaltyTiers[((c - 1) % 4) + 1]]]

\* str(home_store_id)
Str(n) == <<"1", "2", "3", "4">>[n]

\* products table: two offers per product; odd products are own brand and
\* "dairy_eggs", even ones "beverages" with the higher tier1_price * margin.
products ==
    [p \in Products |->
        [product_id |-> p,
         category |-> IF p % 2 = 1 THEN "dairy_eggs" ELSE "beverages",
         tier1_price |-> IF p % 2 = 1 THEN 10 ELSE 40,
         effective_margin |-> IF p % 2 = 1 THEN 10 ELSE 20,
         is_own_brand |-> IF p % 2 = 1 THEN 1 ELSE 0]]

\* A nullable text column holding a comma separated list: NULL, or the
\* fields of the text (no field: the empty string).
Null == [is_null |-> TRUE, fields |-> <<>>]
Text(fs) == [is_null |-> FALSE, fields |-> fs]

\* The eligibility scopes an offer row may carry.
ScopeChoices ==
    { [store_scope |-> Null, business_type_scope |-> Null,
       business_subtype_scope |-> Text(<<>>), loyalty_tier_scope |-> Null],
      [store_scope |-> Text(<<"2">>), business_type_scope |-> Null,
       business_subtype_scope |-> Null, loyalty_tier_scope |-> Null],
      [store_scope |-> Null, business_type_scope |-> Text(<<"horeca", "freelancer">>),
       business_subtype_scope |-> Null, loyalty_tier_scope |-> Text(<<>>)],
      [store_scope |-> Text(<<>>), business_type_scope |-> Null,
       business_subtype_scope |-> Text(<<"grocery">>),
       loyalty_tier_scope |-> Text(<<"gold">>)] }

Unrestricted == CHOOSE s \in ScopeChoices :
    /\ s.store_scope = Null /\ s.business_type_scope = Null /\ s.loyalty_tier_scope = Null
    /\ s.business_subtype_scope = Text(<<>>)

\* The declarative strategy-limit map (config.py CANDIDATE_STRATEGY_LIMITS).
LimitConfigs ==
    { [category_affinity |-> 1, business_type_popular |-> 1, repeat_purchase |-> 1,
       high_margin |-> 1, tier_upgrade |-> 1, cross_sell |-> 1, own_brand_switch |-> 1],
      [category_affinity |-> 2, business_type_popular |-> 1, repeat_purchase |-> 1,
       high_margin |-> 1, tier_upgrade |-> 2, cross_sell |-> 1, own_brand_switch |-> 1] }

VARIABLES
    run_date,           \* the date the pipeline is run for
    offers,             \* offers table: offer_id -> row
    order_items,        \* orders JOIN order_items: set of rows
    impressions,        \* impressions table: set of rows
    customer_features,  \* customer_features table: sequence of rows
    limits,             \* CANDIDATE_STRATEGY_LIMITS
    candidate_pool,     \* candidate_pool table: sequence of rows
    recommendations,    \* recommendations table: sequence of rows
    scored,             \* score_candidates: the scored frame of the last call
    gen_pc,             \* generate_candidate_pool: position
    gen_cust,           \*   index of the customer being processed
    candidates,         \*   the dict offer_id -> strategy, in insertion order
    insert_rows,        \*   rows collected for the current batch
    gen_before,         \* candidate_pool when the last call began
    gen_result,         \* how the last call ended
    gen_prev,           \* the run_date's row count the call before the last one left
    gen_last,           \* the run_date's row count after the last call
                        \*   (-1: no call since the store last changed)
    score_result,       \* how the last score_candidates call ended
    edits,              \* number of catalogue edits so far
    pipeline_runs,      \* pipeline_runs table: sequence of rows
    results,            \* run_pipeline: the map step name -> entry
    model,              \*   what the model step handed back ("none": None)
    pipe_pc,            \*   "idle", the step being run, "returned" or "raised"
    pipe_phase,         \*   "call": before _run_step; "running": in step_fn
    executed,           \* the step functions invoked so far and how each ended
    conn,               \*   run_pipeline's connection: "none", "open" or "closed"
    built,              \* the feature tables rebuilt so far
    offer_features,     \* offer_features table: sequence of rows
    artifact,           \* models/ranker_latest.pkl
    drift_log,          \* drift_log table: sequence of rows
    drift_result,       \* check_drift: the last call's return value
    drift_calls,        \* number of check_drift calls so far
    train_result,       \* train_ranker: how the last call ended
    train_calls,        \* number of train_ranker calls so far
    inter_result,       \* build_interaction_features: the last call's input and result
    dropped,            \* the feature-table columns the store's schema lacks
    train_matrix,       \* build_training_set: the columns of X
    score_matrix,       \* score_candidates: the columns of X
    served              \* get_recommendations: the last request and its response

storeVars == <<run_date, offers, order_items, impressions, customer_features, limits>>
scoreVars == <<recommendations, scored, score_result, served>>
pipeVars == <<pipeline_runs, results, model, pipe_pc, pipe_phase, executed, conn>>
driftVars == <<drift_log, drift_result, drift_calls>>
trainVars == <<train_result, train_calls>>
matrixVars == <<dropped, train_matrix, score_matrix>>
mlVars == <<built, offer_features, artifact, driftVars, trainVars, inter_result, matrixVars>>
genVars == <<gen_pc, gen_cust, candidates, insert_rows, gen_before,
             gen_result, gen_prev, gen_last>>
vars == <<run_date, offers, order_items, impressions, customer_features, limits,
          candidate_pool, recommendations, scored, gen_pc, gen_cust, candidates,
          insert_rows, gen_before, gen_result, gen_prev, gen_last, score_result,
          edits, pipeline_runs, results, model, pipe_pc, pipe_phase, executed, mlVars,
          served, conn>>

\* --------------------------------------------------- customer features
LOOKBACK_DAYS == 90

\* GROUP BY customer_id, category returns the categories in this order.
CategoryOrder == <<"beverages", "dairy_eggs">>

\* JULIANDAY of a timestamp, in hours: a date without a time of day (the
\* reference date) is the midnight that starts the day.
JULIANDAY(day, hour) == (day * 24) + hour

\* The order lines of a customer the WHERE clause keeps:
\* JULIANDAY(order_timestamp) <= JULIANDAY(:ref) and > JULIANDAY(:ref) - 90.
WindowItems(items, c, ref) ==
    {oi \in items : /\ oi.customer_id = c
                    /\ JULIANDAY(oi.day, oi.hour) <= JULIANDAY(ref, 0)
                    /\ JULIANDAY(oi.day, oi.hour) > JULIANDAY(ref - LOOKBACK_DAYS, 0)}

CatCount(items, c, ref, cat) ==
    Cardinality({oi \in WindowItems(items, c, ref) : products[oi.product_id].category = cat})

\* sorted(cat_counts.items(), key=lambda x: -x[1]): stable, highest count first.
RECURSIVE SortByCountDesc(_, _, _, _)
SortByCountDesc(cats, items, c, ref) ==
    IF cats = <<>> THEN <<>>
    ELSE LET best == CHOOSE i \in 1..Len(cats) :
                        /\ \A j \in 1..Len(cats) :
                              CatCount(items, c, ref, cats[j]) <= CatCount(items, c, ref, cats[i])
                        /\ \A j \in 1..(i - 1) :
                              CatCount(items, c, ref, cats[j]) < CatCount(items, c, ref, cats[i])
             rest == [k \in 1..(Len(cats) - 1) |-> IF k < best THEN cats[k] ELSE cats[k + 1]]
         IN <<cats[best]>> \o SortByCountDesc(rest, items, c, ref)

\* _compute_category_features: top-3 categories of the customer's window.
Top3Categories(items, c, ref) ==
    LET bought == SelectSeq(CategoryOrder, LAMBDA cat : CatCount(items, c, ref, cat) > 0)
    IN Take(SortByCountDesc(bought, items, c, ref), 3)

\* A ratio CAST(SUM(CASE WHEN cond THEN 1 ELSE 0 END) AS REAL) / MAX(COUNT(*), 1)
\* over a set of lines, as a fraction num/den; part: the lines meeting cond.
Ratio(lines, part) ==
    [num |-> Cardinality(part),
     den |-> IF lines = {} THEN 1 ELSE Cardinality(lines)]

Zero == [num |-> 0, den |-> 1]
One == [num |-> 1, den |-> 1]

RECURSIVE SumAmount(_)
SumAmount(lines) ==
    IF lines = {} THEN 0
    ELSE LET oi == CHOOSE x \in lines : TRUE
         IN oi.total_amount + SumAmount(lines \ {oi})

MaxDay(lines) == CHOOSE d \in {oi.day : oi \in lines} : \A oi \in lines : oi.day <= d

\* MAX(JULIANDAY(o.order_timestamp)) over the lines, in hours.
MaxStamp(lines) ==
    CHOOSE t \in {JULIANDAY(oi.day, oi.hour) : oi \in lines} :
        \A oi \in lines : JULIANDAY(oi.day, oi.hour) <= t

\* The customer ids a GROUP BY o.customer_id over the window returns.
GroupedCustomers(items, ref) ==
    {c \in {oi.customer_id : oi \in items} : WindowItems(items, c, ref) # {}}

\* order_stats, tier_stats, fresh_stats and purchase_mode_stats: one row per
\* customer with a line in the window (a line stands for an order of one item).
order_stats(items, ref) ==
    {[matched |-> TRUE, customer_id |-> c,
      recency_days |-> (JULIANDAY(ref, 0) - MaxStamp(WindowItems(items, c, ref))) \div 24,
      frequency |-> Cardinality(WindowItems(items, c, ref)),
      monetary |-> SumAmount(WindowItems(items, c, ref))] : c \in GroupedCustomers(items, ref)}

tier_stats(items, ref) ==
    {[matched |-> TRUE, customer_id |-> c,
      tier2_purchase_ratio |-> Ratio(WindowItems(items, c, ref),
                {oi \in WindowItems(items, c, ref) : oi.tier_applied = 2}),
      tier3_purchase_ratio |-> Ratio(WindowItems(items, c, ref),
                {oi \in WindowItems(items, c, ref) : oi.tier_applied = 3})] :
        c \in GroupedCustomers(items, ref)}

fresh_stats(items, ref) ==
    {[matched |-> TRUE, customer_id |-> c,
      fresh_category_ratio |->
          Ratio(WindowItems(items, c, ref),
                {oi \in WindowItems(items, c, ref) :
                    products[oi.product_id].category = "dairy_eggs"})] :
        c \in GroupedCustomers(items, ref)}

purchase_mode_stats(items, ref) ==
    {[matched |-> TRUE, customer_id |-> c,
      business_order_ratio |->
          Ratio(WindowItems(items, c, ref),
                {oi \in WindowItems(items, c, ref) : oi.purchase_mode = "business"})] :
        c \in GroupedCustomers(items, ref)}

\* The elements of a finite set as a sequence.
RECURSIVE SeqOf(_)
SeqOf(S) ==
    IF S = {} THEN <<>>
    ELSE LET x == CHOOSE y \in S : TRUE IN <<x>> \o SeqOf(S \ {x})

\* A faulty join that drops the customers without a matching row (JOIN).
LeftJoin_inner(c, stats, nulls) == SeqOf({st \in stats : st.customer_id = c})

\* customers c LEFT JOIN stats ON c.customer_id = stats.customer_id: the
\* matching rows, or one row of NULLs.
LeftJoin(c, stats, nulls) ==
    LET matches == {st \in stats : st.customer_id = c}
    IN IF matches = {} THEN <<nulls>> ELSE SeqOf(matches)

\* COALESCE(column, default) on a joined row
Coalesce(row, value, default) == IF row.matched THEN value ELSE default

\* Lines 137-169: the rows the SELECT returns for one row of customers; the
\* category columns hold their placeholders.
JoinedRows(c, items, ref) ==
    LET os == LeftJoin(c, order_stats(items, ref),
                       [matched |-> FALSE, customer_id |-> c, recency_days |-> 0,
                        frequency |-> 0, monetary |-> 0])
        ts == LeftJoin(c, tier_stats(items, ref),
                       [matched |-> FALSE, customer_id |-> c, tier2_purchase_ratio |-> Zero,
                        tier3_purchase_ratio |-> Zero])
        fs == LeftJoin(c, fresh_stats(items, ref),
                       [matched |-> FALSE, customer_id |-> c, fresh_category_ratio |-> Zero])
        pm == LeftJoin(c, purchase_mode_stats(items, ref),
                       [matched |-> FALSE, customer_id |-> c, business_order_ratio |-> Zero])
    IN Concat([i \in 1..Len(os) |-> Concat([j \in 1..Len(ts) |->
       Concat([k \in 1..Len(fs) |-> [l \in 1..Len(pm) |->
          [customer_id |-> c,
           recency_days |-> Coalesce(os[i], os[i].recency_days, 999),
           frequency |-> Coalesce(os[i], os[i].frequency, 0),
           monetary |-> Coalesce(os[i], os[i].monetary, 0),
           tier2_purchase_ratio |-> Coalesce(ts[j], ts[j].tier2_purchase_ratio, Zero),
           tier3_purchase_ratio |-> Coalesce(ts[j], ts[j].tier3_purchase_ratio, Zero),
           fresh_category_ratio |-> Coalesce(fs[k], fs[k].fresh_category_ratio, Zero),
           business_order_ratio |-> Coalesce(pm[l], pm[l].business_order_ratio, One),
           top_3_categories |-> <<>>,
           reference_date |-> ref]]])])])

\* _compute_category_features: UPDATE ... WHERE customer_id = ? for every
\* customer with a line in the window.
UpdateCategories(rows, items, ref) ==
    [i \in 1..Len(rows) |->
        IF rows[i].customer_id \in GroupedCustomers(items, ref)
        THEN [rows[i] EXCEPT !.top_3_categories = Top3Categories(items, rows[i].customer_id, ref)]
        ELSE rows[i]]

\* build_customer_features: the table as rebuilt from customers and the
\* window's lines.
BuildCustomerFeatures(items, ref) ==
    UpdateCategories(Concat([i \in 1..NCustomers |-> JoinedRows(Ascending(Customers)[i], items, ref)]),
                     items, ref)

\* build_customer_features(conn, run_date): DROP TABLE, CREATE TABLE AS
\* SELECT, commit, then the category columns.
build_customer_features ==
    /\ customer_features' = BuildCustomerFeatures(order_items, run_date)
    /\ built' = built \cup {"customer_features"}
    /\ UNCHANGED <<run_date, offers, order_items, impressions, limits, candidate_pool,
                   scoreVars, genVars, edits, pipeVars, offer_features, artifact,
                   driftVars, trainVars, inter_result, matrixVars>>

\* ------------------------------------------------------- offer features

\* OFFER_TYPE_DIST: the discount mechanisms.
OfferTypes ==
    <<"percentage", "fixed_amount", "buy_x_get_y", "volume_bonus", "bundle", "free_gift">>

\* A faulty CASE that treats every mechanism as a percentage.
DiscountDepth_percent(offer_type, discount_value, tier1_price) ==
    [num |-> discount_value, den |-> 100]

\* CASE o.offer_type ... END AS discount_depth, as a fraction num/den; a
\* CASE without ELSE gives NULL for any other tag.  MAX(p.tier1_price, 0.01)
\* is the price for the whole-number prices of the store.
DiscountDepth(offer_type, discount_value, tier1_price) ==
    CASE offer_type = "percentage" -> [num |-> discount_value, den |-> 100]
      [] offer_type = "fixed_amount" ->
            IF tier1_price < 1 THEN (IF discount_value >= 1 THEN One
                                    ELSE [num |-> 100 * discount_value, den |-> 1])
            ELSE IF discount_value >= tier1_price THEN One
            ELSE [num |-> discount_value, den |-> tier1_price]
      [] offer_type = "buy_x_get_y" -> [num |-> 50, den |-> 100]
      [] offer_type = "volume_bonus" -> [num |-> discount_value, den |-> 100]
      [] offer_type = "bundle" -> [num |-> 30, den |-> 100]
      [] offer_type = "free_gift" -> [num |-> 20, den |-> 100]
      [] OTHER -> [num |-> 0, den |-> 0]

\* CAST(MAX(0, JULIANDAY(o.end_date) - JULIANDAY(:ref)) AS INTEGER)
DaysUntilExpiry(end_date, ref) == IF end_date - ref > 0 THEN end_date - ref ELSE 0

\* FROM offers o JOIN products p: one row per offer, whatever its dates.
BuildOfferFeatures(table, ref) ==
    [i \in 1..NOffers |->
        LET o == table[Ascending(Offers)[i]]
        IN [offer_id |-> o.offer_id,
            discount_depth |-> DiscountDepth(o.offer_type, o.discount_value,
                                             products[o.product_id].tier1_price),
            days_until_expiry |-> DaysUntilExpiry(o.end_date, ref),
            offer_type |-> o.offer_type,
            reference_date |-> ref]]

\* build_offer_features(conn, run_date): DROP TABLE, CREATE TABLE AS SELECT.
build_offer_features ==
    /\ offer_features' = BuildOfferFeatures(offers, run_date)
    /\ built' = built \cup {"offer_features"}
    /\ UNCHANGED <<storeVars, candidate_pool, scoreVars, genVars, edits, pipeVars,
                   artifact, driftVars, trainVars, inter_result, matrixVars>>

\* ---------------------------------------------------------------- drift

\* PSI values are in thousandths.
PSI_WARN_THRESHOLD == 100
PSI_ALERT_THRESHOLD == 250
n_bins == 10

\* The monitored features among the columns above.
DRIFT_FEATURES == <<"recency_days", "frequency", "monetary">>

\* The persisted artifact: absent, or a dict with the date it was trained for.
NoArtifact == [exists |-> FALSE, train_date |-> 0, version |-> 0]

MinOf(vals) == CHOOSE v \in Range(vals) : \A w \in Range(vals) : v <= w
MaxOf(vals) == CHOOSE v \in Range(vals) : \A w \in Range(vals) : w <= v

\* np.histogram(vals, bins=bin_edges) with the n_bins equal-width edges
\* np.histogram(baseline, bins=n_bins) derives from the baseline: the bin of
\* a value, n_bins for a value outside the edges.  A baseline of one value
\* v has the edges v - 0.5 .. v + 0.5.
BinOf(v, lo, hi) ==
    IF lo = hi THEN (IF v = lo THEN n_bins \div 2 ELSE n_bins)
    ELSE IF v < lo \/ v > hi THEN n_bins
    ELSE IF v = hi THEN n_bins - 1
    ELSE ((v - lo) * n_bins) \div (hi - lo)

Counts(vals, lo, hi) ==
    [b \in 0..(n_bins - 1) |->
        Cardinality({i \in 1..Len(vals) : BinOf(vals[i], lo, hi) = b})]

RECURSIVE SumOver(_, _)
SumOver(f, n) == IF n < 0 THEN 0 ELSE f[n] + SumOver(f, n - 1)

\* 1000 * ln(k + eps) and 1000 * ln(k + eps * n_bins) for eps = 1e-4, to
\* the nearest thousandth, for the counts of a small table.
LnCount(k) ==
    CASE k = 0 -> 0 - 9210 [] k = 1 -> 0 [] k = 2 -> 693 [] k = 3 -> 1099 [] OTHER -> 1386
LnTotal(k) ==
    CASE k = 0 -> 0 - 6908 [] k = 1 -> 1 [] k = 2 -> 694 [] k = 3 -> 1099 [] OTHER -> 1387

\* (counts + eps) / (counts.sum() + eps * n_bins), in thousandths
Pct(k, total) == ((10000 * k + 1) * 1000) \div (10000 * total + n_bins)

\* compute_psi(baseline, current): 0 for an empty array; else the sum over
\* the bins of (current_pct - baseline_pct) * ln(current_pct / baseline_pct),
\* floored at 0.
compute_psi(baseline, current) ==
    IF Len(baseline) = 0 \/ Len(current) = 0 THEN 0
    ELSE LET lo == MinOf(baseline)
             hi == MaxOf(baseline)
             baseline_counts == Counts(baseline, lo, hi)
             current_counts == Counts(current, lo, hi)
             bt == SumOver(baseline_counts, n_bins - 1)
             ct == SumOver(current_counts, n_bins - 1)
             term == [b \in 0..(n_bins - 1) |->
                        (Pct(current_counts[b], ct) - Pct(baseline_counts[b], bt))
                        * ((LnCount(current_counts[b]) - LnTotal(ct))
                           - (LnCount(baseline_counts[b]) - LnTotal(bt)))]
             psi == SumOver(term, n_bins - 1) \div 1000
         IN IF psi > 0 THEN psi ELSE 0

\* check_drift, lines 96-101: the severity of a PSI value.
Severity(psi) ==
    IF psi >= PSI_ALERT_THRESHOLD THEN "alert"
    ELSE IF psi >= PSI_WARN_THRESHOLD THEN "warn"
    ELSE "ok"

\* _get_baseline_date: artifact.get("train_date"), None without artifact.
baseline_date == [is_none |-> ~artifact.exists, date |-> artifact.train_date]

\* _load_feature_snapshot(conn, reference_date): None for no date or an
\* empty table, else SELECT * FROM customer_features.
load_feature_snapshot(reference_date) ==
    IF reference_date.is_none THEN [is_none |-> TRUE, rows |-> <<>>]
    ELSE IF customer_features = <<>> THEN [is_none |-> TRUE, rows |-> <<>>]
    ELSE [is_none |-> FALSE, rows |-> customer_features]

\* frame[feature].dropna().values
Column(rows, feature) ==
    [i \in 1..Len(rows) |->
        CASE feature = "recency_days" -> rows[i].recency_days
          [] feature = "frequency" -> rows[i].frequency
          [] OTHER -> rows[i].monetary]

\* all_results: one entry per monitored feature, in DRIFT_FEATURES order.
DriftResults(baseline_feats, current_feats, rd) ==
    [i \in 1..Len(DRIFT_FEATURES) |->
        LET psi == compute_psi(Column(baseline_feats, DRIFT_FEATURES[i]),
                               Column(current_feats, DRIFT_FEATURES[i]))
        IN [run_date |-> rd, feature_name |-> DRIFT_FEATURES[i], psi_value |-> psi,
            severity |-> Severity(psi)]]

\* A faulty filter that reports every feature.
Alerts_all(rows) == rows

\* alerts: the entries whose severity is not "ok".
Alerts(rows) == SelectSeq(rows, LAMBDA r : r.severity # "ok")

\* check_drift(conn, run_date)
check_drift ==
    /\ drift_calls < MaxDriftCalls
    /\ drift_calls' = drift_calls + 1
    /\ LET baseline_feats == load_feature_snapshot(baseline_date)
           current_feats == load_feature_snapshot([is_none |-> FALSE, date |-> run_date])
       IN IF baseline_feats.is_none \/ current_feats.is_none
          THEN /\ drift_result' = [called |-> TRUE, alerts |-> <<>>, written |-> <<>>]
               /\ UNCHANGED drift_log
          ELSE LET rows == DriftResults(baseline_feats.rows, current_feats.rows, run_date)
               IN /\ drift_log' = drift_log \o rows
                  /\ drift_result' = [called |-> TRUE, alerts |-> Alerts(rows),
                                      written |-> rows]
    /\ UNCHANGED <<storeVars, candidate_pool, scoreVars, genVars, edits, pipeVars,
                   built, offer_features, artifact, trainVars, inter_result, matrixVars>>

\* ------------------------------------------------------------- training

NEGATIVE_SAMPLE_RATIO == 4

\* build_training_set, step 1: the impressions shown up to the reference
\* date with their label, one per (customer, offer, label).
Labeled(imps, ref) ==
    {[customer_id |-> i.customer_id, offer_id |-> i.offer_id, label |-> i.label] :
        i \in {j \in imps : j.day <= ref}}

\* Lines 63-64: the positives and the negatives of the labeled impressions.
positives(imps, ref) == {l \in Labeled(imps, ref) : l.label = 1}

negatives(imps, ref) == {l \in Labeled(imps, ref) : l.label = 0}

\* Lines 71-75: the number of negatives kept: a sample of n_neg of them when
\* n_neg is positive, all of them otherwise.
negatives_sampled(imps, ref) ==
    LET n_neg == Min2(Cardinality(negatives(imps, ref)),
                      Cardinality(positives(imps, ref)) * NEGATIVE_SAMPLE_RATIO)
    IN IF n_neg > 0 THEN n_neg ELSE Cardinality(negatives(imps, ref))

\* build_training_set, step 2: the number of rows of the training set: the
\* positives and the negatives kept by the downsampling.
TrainingSetSize(imps, ref) ==
    Cardinality(positives(imps, ref)) + negatives_sampled(imps, ref)

\* Lines 71-78: the training sets the sampling can give: the positives and
\* negatives_sampled of the negatives.
TrainingSets(imps, ref) ==
    {positives(imps, ref) \cup N :
        N \in {M \in SUBSET negatives(imps, ref) :
                  Cardinality(M) = negatives_sampled(imps, ref)}}

\* Lines 107-114: build_interaction_features returns one row per row of
\* pairs, and pairs has one row per row of the training set; the left merge
\* on (customer_id, offer_id) gives a training row one row per frame row
\* with its key.  customer_features and offer_features have one row per key.
MergeMatches(ts, t) ==
    Cardinality({u \in ts : u.customer_id = t.customer_id /\ u.offer_id = t.offer_id})

\* len(X): the rows of the merged frame.
RECURSIVE MergedRows(_, _)
MergedRows(ts, rest) ==
    IF rest = {} THEN 0
    ELSE LET t == CHOOSE x \in rest : TRUE
         IN MergeMatches(ts, t) + MergedRows(ts, rest \ {t})

\* The label counts of the training set the call built.
LabelCounts ==
    [positives |-> Cardinality(positives(impressions, run_date)),
     negatives |-> negatives_sampled(impressions, run_date)]

\* The keys of the metrics dict of a completed training.
TrainedMetrics ==
    {"lr_auc", "lr_train_time_s", "lgbm_auc", "lgbm_train_time_s", "best_model",
     "best_auc", "feature_importance"}

\* A faulty early return that persists an artifact without a model first.
ArtifactOnEmpty_dump == [exists |-> TRUE, train_date |-> run_date, version |-> artifact.version + 1]

\* Lines 153-155: the artifact file after the early return.
ArtifactOnEmpty == artifact

\* train_ranker(conn, run_date): nothing to train on: (None, {}); else the
\* two fits, which either raise (a training split without both classes) or
\* end with joblib.dump of the new artifact.
train_ranker ==
    /\ train_calls < MaxTrainCalls
    /\ train_calls' = train_calls + 1
    /\ \E ts \in TrainingSets(impressions, run_date) :
          IF MergedRows(ts, ts) = 0
          THEN /\ train_result' = [called |-> TRUE, raised |-> FALSE, model |-> "none",
                                   metrics |-> {}, rows |-> 0, x_rows |-> 0,
                                   labels |-> LabelCounts, before |-> artifact]
               /\ artifact' = ArtifactOnEmpty
          ELSE \/ /\ train_result' = [called |-> TRUE, raised |-> TRUE, model |-> "none",
                                      metrics |-> {},
                                      rows |-> TrainingSetSize(impressions, run_date),
                                      x_rows |-> MergedRows(ts, ts),
                                      labels |-> LabelCounts, before |-> artifact]
                  /\ UNCHANGED artifact
               \/ /\ train_result' = [called |-> TRUE, raised |-> FALSE, model |-> "ranker",
                                      metrics |-> TrainedMetrics,
                                      rows |-> TrainingSetSize(impressions, run_date),
                                      x_rows |-> MergedRows(ts, ts),
                                      labels |-> LabelCounts, before |-> artifact]
                  /\ artifact' = [exists |-> TRUE, train_date |-> run_date,
                                  version |-> artifact.version + 1]
    /\ UNCHANGED <<storeVars, candidate_pool, scoreVars, genVars, edits, pipeVars,
                   built, offer_features, driftVars, inter_result, matrixVars>>

\* --------------------------------------------------- interaction features

\* The columns of the returned frame.
InteractionColumns ==
    <<"customer_id", "offer_id", "bought_product_before", "days_since_last_cat_purchase",
      "category_affinity_score", "discount_depth_vs_usual", "price_sensitivity_match",
      "business_type_match">>

\* The tables the function could write to.
StoreTables ==
    <<offers, order_items, impressions, customer_features, offer_features, candidate_pool,
      recommendations, drift_log, pipeline_runs>>

\* offer_map: offers JOIN products, indexed by offer_id.
OfferIndex == DOMAIN offers

\* A faulty membership test that takes every offer id for a known one.
KnownOffer_always(oid) == TRUE

\* Line 424: oid in offer_map.index
KnownOffer(oid) == oid \in OfferIndex

\* offer_map.loc[oid] raises KeyError for an id that is not in the index.
LocRaises(pairs) ==
    \E i \in 1..Len(pairs) :
        KnownOffer(pairs[i].offer_id) /\ pairs[i].offer_id \notin OfferIndex

\* The order lines up to the reference date (no lower bound).
LinesUpTo(cid, ref) ==
    {oi \in order_items : oi.customer_id = cid /\ JULIANDAY(oi.day, oi.hour) <= JULIANDAY(ref, 0)}

\* Lines 425-431: the row of a pair whose offer is unknown.
SentinelRow(cid, oid) ==
    [customer_id |-> cid, offer_id |-> oid, bought_product_before |-> 0,
     days_since_last_cat_purchase |-> 999, category_affinity_score |-> Zero,
     discount_depth_vs_usual |-> Zero,
     price_sensitivity_match |-> [sensitivity |-> "none", depth |-> Zero],
     business_type_match |-> 0]

\* Lines 433-503: the row of a pair whose offer is known.  The histories
\* hold no promotional line, so the customer's avg_discount_depth is 0.0.
ComputedRow(cid, oid, ref) ==
    LET o_info == offers[oid]
        prod_id == o_info.product_id
        cat == products[prod_id].category
        off_depth == DiscountDepth(o_info.offer_type, o_info.discount_value,
                                   products[prod_id].tier1_price)
        cat_lines == {oi \in LinesUpTo(cid, ref) : products[oi.product_id].category = cat}
        in_feat_map == \E i \in 1..Len(customer_features) :
                           customer_features[i].customer_id = cid
        business_type == IF in_feat_map /\ cid \in Customers
                         THEN customers[cid].business_type ELSE "horeca"
        bt_scope == o_info.business_type_scope
    IN [customer_id |-> cid, offer_id |-> oid,
        bought_product_before |->
            IF \E oi \in LinesUpTo(cid, ref) : oi.product_id = prod_id THEN 1 ELSE 0,
        days_since_last_cat_purchase |->
            IF cat_lines = {} THEN 999 ELSE ref - MaxDay(cat_lines),
        category_affinity_score |-> Ratio(LinesUpTo(cid, ref), cat_lines),
        discount_depth_vs_usual |-> off_depth,
        price_sensitivity_match |->
            [sensitivity |-> IF in_feat_map THEN "mean" ELSE "default", depth |-> off_depth],
        business_type_match |->
            IF bt_scope.is_null \/ bt_scope.fields = <<>> THEN 1
            ELSE IF business_type \in Range(bt_scope.fields) THEN 1 ELSE 0]

InteractionRow(pair, ref) ==
    IF ~KnownOffer(pair.offer_id) THEN SentinelRow(pair.customer_id, pair.offer_id)
    ELSE ComputedRow(pair.customer_id, pair.offer_id, ref)

\* build_interaction_features(conn, pairs_df, reference_date): the frame.
BuildInteractionFeatures(pairs, ref) ==
    IF pairs = <<>> THEN [raised |-> FALSE, columns |-> InteractionColumns, rows |-> <<>>]
    ELSE IF LocRaises(pairs) THEN [raised |-> TRUE, columns |-> <<>>, rows |-> <<>>]
    ELSE [raised |-> FALSE, columns |-> InteractionColumns,
          rows |-> [i \in 1..Len(pairs) |-> InteractionRow(pairs[i], ref)]]

\* The pair lists handed in: known and unknown customers and offers.
PairIds ==
    [customer_id : {1, NCustomers + 1}, offer_id : {1, 2, NOffers + 1}]

RECURSIVE PairLists(_)
PairLists(n) ==
    IF n = 0 THEN {<<>>}
    ELSE PairLists(n - 1) \cup {Append(ps, x) : ps \in PairLists(n - 1), x \in PairIds}

\* One call per behaviour: the function reads the store only.
build_interaction_features ==
    /\ ~inter_result.called
    /\ \E pairs \in PairLists(MaxPairs) :
          inter_result' = [called |-> TRUE, pairs |-> pairs, before |-> StoreTables,
                           frame |-> BuildInteractionFeatures(pairs, run_date)]
    /\ UNCHANGED <<storeVars, candidate_pool, scoreVars, genVars, edits, pipeVars,
                   built, offer_features, artifact, driftVars, trainVars, matrixVars>>

\* ------------------------------------------------------ feature matrices

FEATURE_COLUMNS ==
    <<"recency_days", "frequency", "monetary", "promo_affinity", "avg_basket_size",
      "category_entropy", "avg_discount_depth", "avg_basket_quantity",
      "tier2_purchase_ratio", "tier3_purchase_ratio", "fresh_category_ratio",
      "business_order_ratio", "business_type_encoded", "discount_depth", "margin_impact",
      "days_until_expiry", "historical_redemption_rate", "is_own_brand",
      "bought_product_before", "days_since_last_cat_purchase", "category_affinity_score",
      "discount_depth_vs_usual", "price_sensitivity_match", "business_type_match">>

\* The columns build_customer_features and build_offer_features create.
CustomerFeatureColumns ==
    {"customer_id", "recency_days", "frequency", "monetary", "promo_affinity",
     "avg_basket_size", "avg_basket_quantity", "avg_order_value", "category_entropy",
     "top_3_categories", "avg_discount_depth", "tier2_purchase_ratio",
     "tier3_purchase_ratio", "avg_tier_savings_pct", "fresh_category_ratio",
     "business_order_ratio", "preferred_shopping_day", "days_between_visits_avg",
     "loyalty_tier", "business_type", "business_subtype", "reference_date"}

OfferFeatureColumns ==
    {"offer_id", "discount_depth", "margin_impact", "days_until_expiry",
     "historical_redemption_rate", "total_impressions", "total_redemptions", "category",
     "brand", "tier1_price", "is_own_brand", "offer_type", "campaign_type",
     "horeca_redemption_rate", "trader_redemption_rate", "reference_date"}

\* build_training_set: cust_feat_cols, offer_feat_cols
TrainCustCols ==
    {"customer_id", "recency_days", "frequency", "monetary", "promo_affinity",
     "avg_basket_size", "category_entropy", "avg_discount_depth", "avg_basket_quantity",
     "tier2_purchase_ratio", "tier3_purchase_ratio", "fresh_category_ratio",
     "business_order_ratio"}
TrainOfferCols ==
    {"offer_id", "discount_depth", "margin_impact", "days_until_expiry",
     "historical_redemption_rate", "is_own_brand"}

\* score_candidates: cust_feat_cols, offer_feat_cols
ScoreCustCols ==
    {"customer_id", "recency_days", "frequency", "monetary", "promo_affinity",
     "avg_basket_size", "category_entropy", "avg_discount_depth"}
ScoreOfferCols ==
    {"offer_id", "discount_depth", "margin_impact", "days_until_expiry",
     "historical_redemption_rate"}

\* frame[[c for c in cols if c in frame.columns]]
Present(cols, table, missing) == cols \cap (table \ missing)

\* build_training_set, lines 88-130: the merged frame, the columns added
\* with 0.0 for the model features it lacks, and merged[FEATURE_COLUMNS].
TrainingColumns(missing) ==
    LET merged == {"impression_id", "customer_id", "offer_id", "shown_timestamp", "label"}
                    \cup Present(TrainCustCols, CustomerFeatureColumns, missing)
                    \cup Present(TrainOfferCols, OfferFeatureColumns, missing)
                    \cup Range(InteractionColumns)
        missing_feature_cols == {c \in Range(FEATURE_COLUMNS) : c \notin merged}
    IN SelectSeq(FEATURE_COLUMNS, LAMBDA c : c \in merged \cup missing_feature_cols)

\* score_candidates, lines 43-73: the merged frame and
\* scored[[c for c in FEATURE_COLUMNS if c in scored.columns]].
ScoringColumns(missing) ==
    LET scored_columns == {"customer_id", "offer_id"}
                    \cup Present(ScoreCustCols, CustomerFeatureColumns, missing)
                    \cup Present(ScoreOfferCols, OfferFeatureColumns, missing)
                    \cup Range(InteractionColumns)
    IN SelectSeq(FEATURE_COLUMNS, LAMBDA c : c \in scored_columns)

\* build_training_set up to the feature matrix
BuildTrainingMatrix ==
    /\ ~train_matrix.built
    /\ train_matrix' = [built |-> TRUE, columns |-> TrainingColumns(dropped)]
    /\ UNCHANGED <<storeVars, candidate_pool, scoreVars, genVars, edits, pipeVars,
                   built, offer_features, artifact, driftVars, trainVars, inter_result,
                   dropped, score_matrix>>

\* score_candidates up to the feature matrix
BuildScoringMatrix ==
    /\ ~score_matrix.built
    /\ score_matrix' = [built |-> TRUE, columns |-> ScoringColumns(dropped)]
    /\ UNCHANGED <<storeVars, candidate_pool, scoreVars, genVars, edits, pipeVars,
                   built, offer_features, artifact, driftVars, trainVars, inter_result,
                   dropped, train_matrix>>

\* ------------------------------------------ candidate generation: lookups

\* Active offers on run_date, in table order.
ActiveOffers(rd) ==
    SelectSeq(Ascending(Offers),
              LAMBDA o : offers[o].start_date <= rd /\ offers[o].end_date >= rd)

CategoryOf(o) == products[offers[o].product_id].category

\* cat_to_offers: its keys in insertion order, and the list of one key.
RECURSIVE FirstSeen(_, _)
FirstSeen(cats, seen) ==
    IF cats = <<>> THEN <<>>
    ELSE IF Head(cats) \in seen THEN FirstSeen(Tail(cats), seen)
         ELSE <<Head(cats)>> \o FirstSeen(Tail(cats), seen \cup {Head(cats)})

all_categories(rd) ==
    LET act == ActiveOffers(rd)
    IN FirstSeen([i \in 1..Len(act) |-> CategoryOf(act[i])], {})

cat_to_offers(rd, cat) == SelectSeq(ActiveOffers(rd), LAMBDA o : CategoryOf(o) = cat)

\* nlargest(n, "effective_margin"): highest first, the earlier row on a tie.
RECURSIVE NLargest(_, _)
NLargest(n, os) ==
    IF n <= 0 \/ os = <<>> THEN <<>>
    ELSE LET m(o) == products[offers[o].product_id].effective_margin
             best == CHOOSE i \in 1..Len(os) :
                        /\ \A j \in 1..Len(os) : m(os[j]) <= m(os[i])
                        /\ \A j \in 1..(i - 1) : m(os[j]) < m(os[i])
             rest == [k \in 1..(Len(os) - 1) |-> IF k < best THEN os[k] ELSE os[k + 1]]
         IN <<os[best]>> \o NLargest(n - 1, rest)

high_margin_offers(rd) == NLargest(limits.high_margin, ActiveOffers(rd))

own_brand_offers(rd) ==
    SelectSeq(ActiveOffers(rd), LAMBDA o : products[offers[o].product_id].is_own_brand = 1)

\* bt_pop_map[bt]: the offers shown to customers of the business type,
\* most impressions first (stable on the GROUP BY order).
ImpCount(bt, o) ==
    Cardinality({i \in impressions :
                    customers[i.customer_id].business_type = bt /\ i.offer_id = o})

RECURSIVE SortByImpDesc(_, _)
SortByImpDesc(bt, os) ==
    IF os = <<>> THEN <<>>
    ELSE LET best == CHOOSE i \in 1..Len(os) :
                        /\ \A j \in 1..Len(os) : ImpCount(bt, os[j]) <= ImpCount(bt, os[i])
                        /\ \A j \in 1..(i - 1) : ImpCount(bt, os[j]) < ImpCount(bt, os[i])
             rest == [k \in 1..(Len(os) - 1) |-> IF k < best THEN os[k] ELSE os[k + 1]]
         IN <<os[best]>> \o SortByImpDesc(bt, rest)

bt_pop_map(bt) ==
    SortByImpDesc(bt, Ascending({i.offer_id : i \in {j \in impressions :
                                    customers[j.customer_id].business_type = bt}}))

\* cust_top_cats.get(cid, [])
cust_top_cats(c) ==
    LET rows == SelectSeq(customer_features, LAMBDA r : r.customer_id = c)
    IN IF rows = <<>> THEN <<>> ELSE rows[Len(rows)].top_3_categories

\* cust_products: products bought since run_date - 90 days.
cust_products(c, rd) ==
    {oi.product_id : oi \in {x \in order_items :
                                x.customer_id = c /\ x.day >= rd - LOOKBACK_DAYS}}

\* cust_purchased_cats: their categories.
cust_purchased_cats(c, rd) == {products[p].category : p \in cust_products(c, rd)}

product_to_offers(rd, p) == SelectSeq(ActiveOffers(rd), LAMBDA o : offers[o].product_id = p)

active_offer_set(rd) == Range(ActiveOffers(rd))

\* Iteration order of a Python set of small non-negative integers.
SetOrder(S) == Ascending(S)

\* set(ss.split(",")) if pd.notna(ss) and ss else None; None is "NONE".
ParseScope(col) ==
    IF ~col.is_null /\ col.fields # <<>>
    THEN [none |-> FALSE, members |-> Range(col.fields)]
    ELSE [none |-> TRUE, members |-> {}]

NoScope == [none |-> TRUE, members |-> {}]

\* The four eligibility indexes hold the active offers; .get(offer_id) of
\* another offer is None.
ScopeGet(rd, o, column) ==
    IF o \in active_offer_set(rd) THEN ParseScope(offers[o][column]) ELSE NoScope

\* ------------------------------------------- candidate generation: steps

\* A faulty _is_eligible that forgets the store scope.
is_eligible_no_store(o, c, rd) ==
    LET bt_scope == ScopeGet(rd, o, "business_type_scope")
        sub_scope == ScopeGet(rd, o, "business_subtype_scope")
        lt_scope == ScopeGet(rd, o, "loyalty_tier_scope")
    IN /\ (bt_scope.none \/ customers[c].business_type \in bt_scope.members)
       /\ (sub_scope.none \/ customers[c].business_subtype \in sub_scope.members)
       /\ (lt_scope.none \/ customers[c].loyalty_tier \in lt_scope.members)

\* _is_eligible: business type, subtype, loyalty tier, then store scope.
is_eligible(o, c, rd) ==
    LET bt_scope == ScopeGet(rd, o, "business_type_scope")
        sub_scope == ScopeGet(rd, o, "business_subtype_scope")
        lt_scope == ScopeGet(rd, o, "loyalty_tier_scope")
        st_scope == ScopeGet(rd, o, "store_scope")
    IN IF ~bt_scope.none /\ customers[c].business_type \notin bt_scope.members THEN FALSE
       ELSE IF ~sub_scope.none /\ customers[c].business_subtype \notin sub_scope.members
            THEN FALSE
       ELSE IF ~lt_scope.none /\ customers[c].loyalty_tier \notin lt_scope.members THEN FALSE
       ELSE IF ~st_scope.none /\ Str(customers[c].home_store_id) \notin st_scope.members
            THEN FALSE
       ELSE TRUE

\* The dict candidates: a sequence of entries with distinct keys.
Keys(cands) == {cands[i].offer_id : i \in 1..Len(cands)}

\* A faulty membership test under which every strategy claims again.
NotIn_always(cands, o) == TRUE

\* oid not in candidates
NotIn(cands, o) == o \notin Keys(cands)

\* candidates[oid] = tag
DictSet(cands, o, tag) ==
    IF o \in Keys(cands)
    THEN [i \in 1..Len(cands) |->
             IF cands[i].offer_id = o THEN [offer_id |-> o, strategy |-> tag] ELSE cands[i]]
    ELSE Append(cands, [offer_id |-> o, strategy |-> tag])

\* A faulty claim loop that keeps a list instead of a dict.
RECURSIVE ClaimAll_list(_, _, _, _, _)
ClaimAll_list(cands, os, tag, c, rd) ==
    IF os = <<>> THEN cands
    ELSE IF is_eligible(Head(os), c, rd)
         THEN ClaimAll_list(Append(cands, [offer_id |-> Head(os), strategy |-> tag]),
                            Tail(os), tag, c, rd)
         ELSE ClaimAll_list(cands, Tail(os), tag, c, rd)

\* for oid in os: if oid not in candidates and _is_eligible(...): claim
RECURSIVE ClaimAll(_, _, _, _, _)
ClaimAll(cands, os, tag, c, rd) ==
    IF os = <<>> THEN cands
    ELSE IF NotIn(cands, Head(os)) /\ is_eligible(Head(os), c, rd)
         THEN ClaimAll(DictSet(cands, Head(os), tag), Tail(os), tag, c, rd)
         ELSE ClaimAll(cands, Tail(os), tag, c, rd)

\* The same loop with a count, left once count >= limit is seen before an
\* element (strategies 3, 5, 6 and 7).
RECURSIVE ClaimLimited(_, _, _, _, _, _, _)
ClaimLimited(cands, os, tag, c, rd, limit, count) ==
    IF os = <<>> \/ count >= limit THEN cands
    ELSE IF NotIn(cands, Head(os)) /\ is_eligible(Head(os), c, rd)
         THEN ClaimLimited(DictSet(cands, Head(os), tag), Tail(os), tag, c, rd,
                           limit, count + 1)
         ELSE ClaimLimited(cands, Tail(os), tag, c, rd, limit, count)

\* Strategy 2's loop: active offers only, left once count >= limit is seen
\* after a claim.
RECURSIVE ClaimPopular(_, _, _, _, _, _)
ClaimPopular(cands, os, c, rd, limit, count) ==
    IF os = <<>> THEN cands
    ELSE IF Head(os) \in active_offer_set(rd) /\ NotIn(cands, Head(os))
            /\ is_eligible(Head(os), c, rd)
         THEN IF count + 1 >= limit
              THEN DictSet(cands, Head(os), "business_type_popular")
              ELSE ClaimPopular(DictSet(cands, Head(os), "business_type_popular"),
                                Tail(os), c, rd, limit, count + 1)
         ELSE ClaimPopular(cands, Tail(os), c, rd, limit, count)

\* Strategy 1: the top categories' offers, backfilled with the other
\* categories when short of the limit; the first `limit` of the list.
CategoryAffinity(cands, c, rd) ==
    LET limit == limits.category_affinity
        top_cats == cust_top_cats(c)
        keys == all_categories(rd)
        own == Concat([i \in 1..Len(top_cats) |->
                          IF top_cats[i] \in Range(keys)
                          THEN cat_to_offers(rd, top_cats[i]) ELSE <<>>])
        others == SelectSeq(keys, LAMBDA cat : cat \notin Range(top_cats))
        fill == Concat([i \in 1..Len(others) |-> cat_to_offers(rd, others[i])])
        cat_candidates == IF Len(own) < limit THEN own \o fill ELSE own
    IN ClaimAll(cands, Take(cat_candidates, limit), "category_affinity", c, rd)

\* Strategy 2
BusinessTypePopular(cands, c, rd) ==
    ClaimPopular(cands, bt_pop_map(customers[c].business_type), c, rd,
                 limits.business_type_popular, 0)

\* Strategy 3: the offers of the products bought, product by product.
RepeatPurchase(cands, c, rd) ==
    LET prods == SetOrder(cust_products(c, rd))
        os == Concat([i \in 1..Len(prods) |-> product_to_offers(rd, prods[i])])
    IN ClaimLimited(cands, os, "repeat_purchase", c, rd, limits.repeat_purchase, 0)

\* A faulty strategy 4 that claims nothing.
HighMargin_none(cands, c, rd) == cands

\* Strategy 4
HighMargin(cands, c, rd) ==
    ClaimAll(cands, high_margin_offers(rd), "high_margin", c, rd)

\* Strategy 5: customers whose tier-3 purchase ratio is below 0.3.
TierUpgrade(cands, c, rd) ==
    IF /\ \E i \in 1..Len(customer_features) : customer_features[i].customer_id = c
       /\ LET tier_info == SelectSeq(customer_features, LAMBDA r : r.customer_id = c)[1]
          IN 10 * tier_info.tier3_purchase_ratio.num < 3 * tier_info.tier3_purchase_ratio.den
    THEN ClaimLimited(cands, SetOrder(active_offer_set(rd)), "tier_upgrade", c, rd,
                      limits.tier_upgrade, 0)
    ELSE cands

\* Strategy 6: the offers of the categories the customer has not bought.
CrossSell(cands, c, rd) ==
    LET cats == SelectSeq(all_categories(rd), LAMBDA cat : cat \notin cust_purchased_cats(c, rd))
        os == Concat([i \in 1..Len(cats) |-> cat_to_offers(rd, cats[i])])
    IN ClaimLimited(cands, os, "cross_sell", c, rd, limits.cross_sell, 0)

\* Strategy 7
OwnBrandSwitch(cands, c, rd) ==
    ClaimLimited(cands, own_brand_offers(rd), "own_brand_switch", c, rd,
                 limits.own_brand_switch, 0)

\* A faulty row builder without the [:CANDIDATE_POOL_SIZE] slice.
CappedRows_nocap(cands, c, rd) ==
    [i \in 1..Len(cands) |->
        [customer_id |-> c, offer_id |-> cands[i].offer_id,
         strategy |-> cands[i].strategy, run_date |-> rd]]

\* list(candidates.items())[:CANDIDATE_POOL_SIZE] as rows of the customer
CappedRows(cands, c, rd) ==
    LET kept == Take(cands, CANDIDATE_POOL_SIZE)
    IN [i \in 1..Len(kept) |->
           [customer_id |-> c, offer_id |-> kept[i].offer_id,
            strategy |-> kept[i].strategy, run_date |-> rd]]

\* A faulty generator that does not delete before it inserts.
DeletePool_keep(pool, rd) == pool

\* A faulty delete that forgets the WHERE clause.
DeletePool_all(pool, rd) == <<>>

\* DELETE FROM candidate_pool WHERE run_date = ?
DeletePool(pool, rd) == SelectSeq(pool, LAMBDA r : r.run_date # rd)

\* executemany(INSERT OR IGNORE ...): the schema's key is not part of the
\* sources; every row is stored, so a repeated pair shows as two rows.
InsertPool(pool, rows) == pool \o rows

CountPool(pool, rd) == Len(SelectSeq(pool, LAMBDA r : r.run_date = rd))

\* customers.iloc[...] order
CustomerAt(i) == Ascending(Customers)[i]

\* The call has ended: what it leaves for later calls to compare with.
GenEnd(pool, rd, how) ==
    /\ gen_pc' = "idle"
    /\ gen_result' = how
    /\ gen_last' = CountPool(pool, rd)
    /\ gen_cust' = 1
    /\ candidates' = <<>>
    /\ insert_rows' = <<>>

\* Lines 37-55 and 165-171: delete the run_date's rows and commit, load the
\* reference data, return when no offer is active, else start the batches.
GenBegin(rd) ==
    /\ gen_pc = "idle"
    /\ gen_before' = candidate_pool
    /\ gen_prev' = gen_last
    /\ candidate_pool' = DeletePool(candidate_pool, rd)
    /\ IF ActiveOffers(rd) = <<>>
       THEN GenEnd(candidate_pool', rd, "no_active_offers")
       ELSE IF NCustomers = 0
            THEN GenEnd(candidate_pool', rd, "completed")
            ELSE /\ gen_pc' = "category_affinity"
                 /\ gen_result' = "running"
                 /\ gen_cust' = 1
                 /\ candidates' = <<>>
                 /\ insert_rows' = <<>>
                 /\ UNCHANGED gen_last
    /\ UNCHANGED <<storeVars, mlVars, scoreVars, edits, pipeVars>>

\* One strategy of the current customer.
GenStrategy(at, next, result) ==
    /\ gen_pc = at
    /\ candidates' = result
    /\ gen_pc' = next
    /\ UNCHANGED <<storeVars, mlVars, candidate_pool, scoreVars, gen_cust, insert_rows,
                   gen_before, gen_result, gen_prev, gen_last, edits, pipeVars>>

GenCategoryAffinity ==
    GenStrategy("category_affinity", "business_type_popular",
                CategoryAffinity(candidates, CustomerAt(gen_cust), run_date))

GenBusinessTypePopular ==
    GenStrategy("business_type_popular", "repeat_purchase",
                BusinessTypePopular(candidates, CustomerAt(gen_cust), run_date))

GenRepeatPurchase ==
    GenStrategy("repeat_purchase", "high_margin",
                RepeatPurchase(candidates, CustomerAt(gen_cust), run_date))

GenHighMargin ==
    GenStrategy("high_margin", "tier_upgrade",
                HighMargin(candidates, CustomerAt(gen_cust), run_date))

GenTierUpgrade ==
    GenStrategy("tier_upgrade", "cross_sell",
                TierUpgrade(candidates, CustomerAt(gen_cust), run_date))

GenCrossSell ==
    GenStrategy("cross_sell", "own_brand_switch",
                CrossSell(candidates, CustomerAt(gen_cust), run_date))

GenOwnBrandSwitch ==
    GenStrategy("own_brand_switch", "cap",
                OwnBrandSwitch(candidates, CustomerAt(gen_cust), run_date))

\* Lines 290-294: cap the customer's candidates and go to the next customer
\* of the batch, or to the batch insert.
LastOfBatch(i) == i % batch_size = 0 \/ i = NCustomers

GenCap ==
    /\ gen_pc = "cap"
    /\ insert_rows' = insert_rows \o CappedRows(candidates, CustomerAt(gen_cust), run_date)
    /\ IF LastOfBatch(gen_cust)
       THEN /\ gen_pc' = "insert"
            /\ UNCHANGED <<gen_cust, candidates>>
       ELSE /\ gen_pc' = "category_affinity"
            /\ gen_cust' = gen_cust + 1
            /\ candidates' = <<>>
    /\ UNCHANGED <<storeVars, mlVars, candidate_pool, scoreVars, gen_before,
                   gen_result, gen_prev, gen_last, edits, pipeVars>>

\* Lines 296-301: insert the batch and commit; then the next batch or the end.
GenInsert ==
    /\ gen_pc = "insert"
    /\ candidate_pool' = InsertPool(candidate_pool, insert_rows)
    /\ IF gen_cust = NCustomers
       THEN GenEnd(candidate_pool', run_date, "completed")
       ELSE /\ gen_pc' = "category_affinity"
            /\ gen_cust' = gen_cust + 1
            /\ candidates' = <<>>
            /\ insert_rows' = <<>>
            /\ UNCHANGED <<gen_result, gen_last>>
    /\ UNCHANGED <<storeVars, mlVars, scoreVars, gen_before, gen_prev, edits, pipeVars>>

\* A faulty failure path that rolls the run_date's rows back.
FailedPool_rollback(n) == DeletePool(candidate_pool, run_date)

\* The table when the call raises: the batches committed so far and, when
\* executemany itself raised, the first n rows of the batch at hand.
FailedPool(n) == InsertPool(candidate_pool, Take(insert_rows, n))

\* generate_candidate_pool raises while it processes a batch (a strategy of
\* one of its customers, the cap, or the batch insert before its commit);
\* nothing in the function catches the exception or undoes a commit.
GenFail ==
    /\ gen_pc # "idle"
    /\ \E n \in 0..Len(insert_rows) :
          /\ (gen_pc # "insert") => n = 0
          /\ (gen_pc = "insert") => n < Len(insert_rows)
          /\ candidate_pool' = FailedPool(n)
    /\ gen_pc' = "idle"
    /\ gen_result' = "failed"
    /\ gen_last' = 0 - 1
    /\ candidates' = <<>>
    /\ insert_rows' = <<>>
    /\ UNCHANGED <<storeVars, mlVars, scoreVars, gen_cust, gen_before, gen_prev, edits,
                   pipeVars>>

generate_candidate_pool ==
    \/ GenBegin(run_date)
    \/ GenCategoryAffinity
    \/ GenBusinessTypePopular
    \/ GenRepeatPurchase
    \/ GenHighMargin
    \/ GenTierUpgrade
    \/ GenCrossSell
    \/ GenOwnBrandSwitch
    \/ GenCap
    \/ GenInsert

\* ------------------------------------------------------------- scoring

\* groupby("customer_id")["score"].rank(ascending=False, method="first")
RankOf(rows, i) ==
    1 + Cardinality({j \in 1..Len(rows) :
                        /\ rows[j].customer_id = rows[i].customer_id
                        /\ \/ rows[j].score > rows[i].score
                           \/ rows[j].score = rows[i].score /\ j < i})

\* The trained models: predict_proba as a function of the pair's features,
\* which the pair and the store determine.
Models ==
    { [pair \in Customers \X Offers |-> 0],
      [pair \in Customers \X Offers |-> pair[2] % (MaxScore + 1)],
      [pair \in Customers \X Offers |-> (pair[1] + pair[2] \div 2) % (MaxScore + 1)] }

\* SELECT customer_id, offer_id FROM candidate_pool WHERE run_date = ?
LoadCandidates(rd) ==
    LET rows == SelectSeq(candidate_pool, LAMBDA r : r.run_date = rd)
    IN [i \in 1..Len(rows) |->
           [customer_id |-> rows[i].customer_id, offer_id |-> rows[i].offer_id]]

\* Steps 4-6: the merged frame with its score and rank columns.
ScoredFrame(cands, clf) ==
    LET with_score == [i \in 1..Len(cands) |->
                          [customer_id |-> cands[i].customer_id,
                           offer_id |-> cands[i].offer_id,
                           score |-> clf[<<cands[i].customer_id, cands[i].offer_id>>]]]
    IN [i \in 1..Len(cands) |->
           [customer_id |-> with_score[i].customer_id,
            offer_id |-> with_score[i].offer_id,
            score |-> with_score[i].score,
            rank |-> RankOf(with_score, i)]]

\* scored[scored["rank"] <= TOP_N_RECOMMENDATIONS] with the run_date column
TopN(frame, rd) ==
    LET kept == SelectSeq(frame, LAMBDA r : r.rank <= TOP_N_RECOMMENDATIONS)
    IN [i \in 1..Len(kept) |->
           [run_date |-> rd, customer_id |-> kept[i].customer_id,
            offer_id |-> kept[i].offer_id, score |-> kept[i].score,
            rank |-> kept[i].rank]]

\* DELETE FROM recommendations WHERE run_date = ?
DeleteRecommendations(recs, rd) == SelectSeq(recs, LAMBDA r : r.run_date # rd)

\* Lines 30-39: the pool has no row for the run date; return 0.
ScoreNoCandidates(rd) ==
    /\ gen_pc = "idle"
    /\ LoadCandidates(rd) = <<>>
    /\ scored' = <<>>
    /\ score_result' = "no_candidates"
    /\ UNCHANGED <<storeVars, mlVars, candidate_pool, recommendations, served, genVars, edits,
                   pipeVars>>

\* Lines 41-99: score, rank, delete the run date's rows, append, commit.
ScoreWrite(rd, clf) ==
    /\ gen_pc = "idle"
    /\ LoadCandidates(rd) # <<>>
    /\ scored' = ScoredFrame(LoadCandidates(rd), clf)
    /\ recommendations' = DeleteRecommendations(recommendations, rd) \o TopN(scored', rd)
    /\ score_result' = "written"
    /\ UNCHANGED <<storeVars, mlVars, candidate_pool, served, genVars, edits, pipeVars>>

score_candidates ==
    \/ ScoreNoCandidates(run_date)
    \/ \E clf \in Models : ScoreWrite(run_date, clf)

\* ------------------------------------------------------- the catalogue

\* The offers table is maintained outside the pipeline: offers are
\* withdrawn by ending them before the run date.
WithdrawOffers(S) ==
    /\ gen_pc = "idle"
    /\ edits < MaxEdits
    /\ S # {}
    /\ S \subseteq active_offer_set(run_date)
    /\ offers' = [o \in Offers |->
                     IF o \in S THEN [offers[o] EXCEPT !.end_date = PrevDate] ELSE offers[o]]
    /\ edits' = edits + 1
    /\ gen_prev' = 0 - 1
    /\ gen_last' = 0 - 1
    /\ UNCHANGED <<run_date, order_items, impressions, customer_features, limits,
                   candidate_pool, scoreVars, gen_pc, gen_cust, candidates,
                   insert_rows, gen_before, gen_result, pipeVars, mlVars>>

CatalogueEdit == \E S \in SUBSET Offers : WithdrawOffers(S)

\* ------------------------------------------------------- orchestrator

\* The steps of run_pipeline in call order.
PipelineSteps ==
    <<"behavior", "features", "model", "candidates", "scoring", "drift", "evaluate">>

\* What a step function can hand back: simulate_day and
\* compute_offline_metrics a dict, _step_model a model or None, score_candidates
\* a count, check_drift a list, the others None.
StepResults(step) ==
    CASE step = "behavior" -> {"dict"}
      [] step = "features" -> {"none"}
      [] step = "model" -> {"model", "none"}
      [] step = "candidates" -> {"none"}
      [] step = "scoring" -> {"int"}
      [] step = "drift" -> {"list"}
      [] step = "evaluate" -> {"dict"}

\* str(e) of the exceptions a step function can raise.
ErrorMessages == {"no such table", "database is locked"}

\* How a call of a step function ends.
StepOutcomes(step) ==
    [raised : {FALSE}, result : StepResults(step), message : {""}]
        \cup [raised : {TRUE}, result : {"none"}, message : ErrorMessages]

AllOutcomes == UNION {StepOutcomes(PipelineSteps[k]) : k \in 1..Len(PipelineSteps)}

\* A faulty INSERT that replaces the step's previous row.
log_pipeline_run_upsert(runs, rd, step, status, duration, metadata) ==
    LET row == [run_date |-> rd, step |-> step, status |-> status,
                duration_seconds |-> duration, metadata |-> metadata]
    IN IF runs # <<>> /\ runs[Len(runs)].step = step /\ runs[Len(runs)].run_date = rd
       THEN [runs EXCEPT ![Len(runs)] = row]
       ELSE Append(runs, row)

\* _log_pipeline_run: INSERT INTO pipeline_runs ... and commit.
log_pipeline_run(runs, rd, step, status, duration, metadata) ==
    Append(runs, [run_date |-> rd, step |-> step, status |-> status,
                  duration_seconds |-> duration, metadata |-> metadata])

\* A faulty handler that catches nothing.
ExceptException_none(outcome) == FALSE

\* except Exception as e
ExceptException(outcome) == outcome.raised

\* json.dumps(result) if isinstance(result, dict) else None
Metadata(result) == IF result = "dict" THEN "json" ELSE "null"

\* results[step_name] = {...}
ResultsSet(res, step, entry) ==
    IF \E i \in 1..Len(res) : res[i].step = step
    THEN [i \in 1..Len(res) |-> IF res[i].step = step THEN entry ELSE res[i]]
    ELSE Append(res, entry)

NextStep(step) ==
    LET k == CHOOSE i \in 1..Len(PipelineSteps) : PipelineSteps[i] = step
    IN IF k = Len(PipelineSteps) THEN "returned" ELSE PipelineSteps[k + 1]

\* A faulty run_pipeline without the early return.
AfterStep_continue(step, result) == NextStep(step)

\* Lines 64-69: after the model step run_pipeline returns when it got no
\* model; after any other step, and after a model step that gave a model, it
\* goes on to the next step, or returns after the last.
AfterStep(step, result) ==
    IF step = "model" /\ result = "none" THEN "returned" ELSE NextStep(step)

\* Lines 46-53: run_pipeline is entered.
RunPipelineBegin ==
    /\ pipe_pc = "idle"
    /\ pipe_pc' = PipelineSteps[1]
    /\ pipe_phase' = "call"
    /\ results' = <<>>
    /\ model' = "none"
    /\ conn' = "open"
    /\ UNCHANGED <<storeVars, mlVars, candidate_pool, scoreVars, genVars, edits, pipeline_runs,
                   executed>>

\* Lines 99-102: _run_step logs "started" and calls the step function.
RunStepStarted ==
    /\ pipe_pc \in Range(PipelineSteps)
    /\ pipe_phase = "call"
    /\ pipeline_runs' = log_pipeline_run(pipeline_runs, run_date, pipe_pc, "started",
                                         "null", "null")
    /\ pipe_phase' = "running"
    /\ UNCHANGED <<storeVars, mlVars, candidate_pool, scoreVars, genVars, edits, results, model,
                   pipe_pc, executed, conn>>

\* Lines 103-117 and the caller's use of the value: the step function
\* returns or raises; the terminal row and the results entry are written;
\* run_pipeline goes on, or returns after a model step that gave None or
\* after the last step.
RunStepReturns(outcome) ==
    /\ pipe_pc \in Range(PipelineSteps)
    /\ pipe_phase = "running"
    /\ outcome \in StepOutcomes(pipe_pc)
    /\ executed' = Append(executed, [step |-> pipe_pc, outcome |-> outcome])
    /\ pipe_phase' = "call"
    /\ IF ~outcome.raised
       THEN /\ pipeline_runs' = log_pipeline_run(pipeline_runs, run_date, pipe_pc,
                                                 "completed", "measured",
                                                 Metadata(outcome.result))
            /\ results' = ResultsSet(results, pipe_pc,
                                     [step |-> pipe_pc, status |-> "completed",
                                      duration |-> "measured", result |-> outcome.result,
                                      error |-> ""])
            /\ model' = IF pipe_pc = "model" THEN outcome.result ELSE model
            /\ pipe_pc' = AfterStep(pipe_pc, outcome.result)
       ELSE IF ExceptException(outcome)
       THEN /\ pipeline_runs' = log_pipeline_run(pipeline_runs, run_date, pipe_pc,
                                                 "failed", "measured", outcome.message)
            /\ results' = ResultsSet(results, pipe_pc,
                                     [step |-> pipe_pc, status |-> "failed",
                                      duration |-> "measured", result |-> "none",
                                      error |-> outcome.message])
            /\ model' = IF pipe_pc = "model" THEN "none" ELSE model
            /\ pipe_pc' = AfterStep(pipe_pc, "none")
       ELSE /\ pipe_pc' = "raised"
            /\ UNCHANGED <<pipeline_runs, results, model>>
    /\ conn' = IF pipe_pc' = "returned" THEN "closed" ELSE conn

\* A step as the orchestrator sees it: its effect on the tables is left to
\* the specifications of the step functions.
RunStepEnded(outcome) ==
    /\ RunStepReturns(outcome)
    /\ UNCHANGED <<storeVars, mlVars, candidate_pool, scoreVars, genVars, edits>>

run_pipeline ==
    \/ RunPipelineBegin
    \/ RunStepStarted
    \/ \E outcome \in AllOutcomes : RunStepEnded(outcome)

\* ------------------------------------------------------- initial stores

\* No request has been answered yet.
NotServed ==
    [called |-> FALSE, customer_id |-> 0, status |-> 0, run_date |-> 0, rows |-> <<>>,
     during |-> "idle"]

\* offers table.  Offer 1 ends on day 1 and the last offer starts on day 2,
\* so each run date has its own set of active offers; an offer is on
\* product (offer_id + 1) / 2.
OfferRow(o, scope) ==
    [offer_id |-> o,
     product_id |-> (o + 1) \div 2,
     store_scope |-> scope.store_scope,
     business_type_scope |-> scope.business_type_scope,
     business_subtype_scope |-> scope.business_subtype_scope,
     loyalty_tier_scope |-> scope.loyalty_tier_scope,
     start_date |-> IF o = NOffers THEN 2 ELSE 0,
     end_date |-> IF o = 1 THEN 1 ELSE 3]

\* Catalogues in which at most MaxScoped offers carry a restricted scope.
OfferTables ==
    {[o \in Offers |-> OfferRow(o, f[o])] :
        f \in {g \in [Offers -> ScopeChoices] :
                  Cardinality({o \in Offers : g[o] # Unrestricted}) <= MaxScoped}}

\* orders JOIN order_items: the lines the queries read.
OrderDays == {1}
Buyers == {1}
OrderLines ==
    [customer_id : Buyers, product_id : Products, tier_applied : {1, 3}, day : OrderDays,
     hour : {0}, purchase_mode : {"business"}, total_amount : {50}]

OrderTables == {S \in SUBSET OrderLines : Cardinality(S) <= MaxOrderItems}

\* impressions: none, or a history in which the first customer saw offer 3
\* twice and offer 2 once and the second customer saw offer 2.
ImpressionTables ==
    { {},
      { [impression_id |-> 1, customer_id |-> 1, offer_id |-> 2],
        [impression_id |-> 2, customer_id |-> 1, offer_id |-> 3],
        [impression_id |-> 3, customer_id |-> 1, offer_id |-> 3],
        [impression_id |-> 4, customer_id |-> 2, offer_id |-> 2] } }

\* What the run of the previous day left in the two result tables.
LegacyPool ==
    <<[customer_id |-> 1, offer_id |-> 2, strategy |-> "high_margin", run_date |-> PrevDate]>>

LegacyRecommendations ==
    <<[run_date |-> PrevDate, customer_id |-> 1, offer_id |-> 2, score |-> 1, rank |-> 1]>>

\* The audit rows of the previous day's run.
LegacyRuns ==
    <<[run_date |-> PrevDate, step |-> "behavior", status |-> "started",
       duration_seconds |-> "null", metadata |-> "null"],
      [run_date |-> PrevDate, step |-> "behavior", status |-> "failed",
       duration_seconds |-> "measured", metadata |-> "no such table"]>>

InitStore ==
    /\ run_date \in RunDates
    /\ offers \in OfferTables
    /\ order_items \in OrderTables
    /\ impressions \in ImpressionTables
    /\ customer_features = BuildCustomerFeatures(order_items, run_date)
    /\ limits \in LimitConfigs
    /\ artifact = NoArtifact
    /\ dropped = {}

InitTables ==
    /\ candidate_pool = LegacyPool
    /\ recommendations = LegacyRecommendations
    /\ scored = <<>>
    /\ gen_pc = "idle"
    /\ gen_cust = 1
    /\ candidates = <<>>
    /\ insert_rows = <<>>
    /\ gen_before = LegacyPool
    /\ gen_result = "none"
    /\ gen_prev = 0 - 1
    /\ gen_last = 0 - 1
    /\ score_result = "none"
    /\ served = NotServed
    /\ edits = 0
    /\ pipeline_runs = LegacyRuns
    /\ results = <<>>
    /\ model = "none"
    /\ pipe_pc = "idle"
    /\ pipe_phase = "call"
    /\ conn = "none"
    /\ executed = <<>>
    /\ built = {}
    /\ offer_features = <<>>
    /\ drift_log = <<>>
    /\ drift_result = [called |-> FALSE, alerts |-> <<>>, written |-> <<>>]
    /\ drift_calls = 0
    /\ train_result = [called |-> FALSE, raised |-> FALSE, model |-> "none", metrics |-> {},
                       rows |-> 0, x_rows |-> 0,
                       labels |-> [positives |-> 0, negatives |-> 0],
                       before |-> NoArtifact]
    /\ train_calls = 0
    /\ train_matrix = [built |-> FALSE, columns |-> <<>>]
    /\ score_matrix = [built |-> FALSE, columns |-> <<>>]
    /\ inter_result = [called |-> FALSE, pairs |-> <<>>, before |-> <<>>,
                       frame |-> [raised |-> FALSE, columns |-> <<>>, rows |-> <<>>]]

InitCand == InitStore /\ InitTables

NextCand == generate_candidate_pool

SpecCand == InitCand /\ [][NextCand]_vars

\* The subsets of S with at most n elements.
RECURSIVE UpTo(_, _)
UpTo(S, n) ==
    IF n = 0 THEN {{}}
    ELSE UpTo(S, n - 1) \cup {T \cup {x} : T \in UpTo(S, n - 1), x \in S}

\* Generation, to its end or to a failure, over purchase histories whose
\* orders are dated more than 90 days before the run, around its date and
\* after it.
HistDays == {0 - 90, 1, 2}
HistLines ==
    {[customer_id |-> c, product_id |-> p, tier_applied |-> 1, day |-> d, hour |-> 9,
      purchase_mode |-> "business", total_amount |-> 50] :
        c \in Customers, p \in Products, d \in HistDays}

InitHist ==
    /\ InitTables
    /\ run_date \in RunDates
    /\ offers = [o \in Offers |-> OfferRow(o, Unrestricted)]
    /\ order_items \in UpTo(HistLines, MaxOrderItems)
    /\ impressions = {}
    /\ customer_features = BuildCustomerFeatures(order_items, run_date)
    /\ limits \in LimitConfigs
    /\ artifact = NoArtifact
    /\ dropped = {}

NextHist == generate_candidate_pool \/ GenFail

SpecHist == InitHist /\ [][NextHist]_vars

\* Generation, scoring and catalogue edits on a store without history and
\* without scoped offers.
InitScore ==
    /\ InitCand
    /\ order_items = {}
    /\ impressions = {}
    /\ offers = [o \in Offers |-> OfferRow(o, Unrestricted)]

NextScore ==
    \/ generate_candidate_pool
    \/ score_candidates
    \/ CatalogueEdit

SpecScore == InitScore /\ [][NextScore]_vars

\* The orchestrator on the same store; what its step functions do to the
\* tables is the subject of the two specifications above.
InitPipe == InitScore /\ limits.category_affinity = 1

NextPipe == run_pipeline

SpecPipe == InitPipe /\ [][NextPipe]_vars

\* ============================================ candidate generation: claims

\* The eligibility predicate, read off the raw scope columns.
Admits(col, value) == col.is_null \/ col.fields = <<>> \/ value \in Range(col.fields)

FailingDimensions(o, c) ==
    {d \in {"store", "business_type", "business_subtype", "loyalty_tier"} :
        CASE d = "store" -> ~Admits(offers[o].store_scope, Str(customers[c].home_store_id))
          [] d = "business_type" ->
                ~Admits(offers[o].business_type_scope, customers[c].business_type)
          [] d = "business_subtype" ->
                ~Admits(offers[o].business_subtype_scope, customers[c].business_subtype)
          [] d = "loyalty_tier" ->
                ~Admits(offers[o].loyalty_tier_scope, customers[c].loyalty_tier)}

Eligible(o, c) == FailingDimensions(o, c) = {}

\* The run_date's rows of the pool, and those of one customer.
PoolRows(rd) == SelectSeq(candidate_pool, LAMBDA r : r.run_date = rd)
PoolRowsOf(c, rd) == SelectSeq(candidate_pool, LAMBDA r : r.run_date = rd /\ r.customer_id = c)

\* C1: after generate_candidate_pool on a store with an active offer, every
\* candidate_pool row of the run date pairs a customer with an offer whose
\* four scopes each are unrestricted (NULL or empty) or contain the
\* customer's value.
C1_RowsEligible ==
    gen_result = "completed" =>
        \A i \in 1..Len(candidate_pool) :
            candidate_pool[i].run_date = run_date =>
                Eligible(candidate_pool[i].offer_id, candidate_pool[i].customer_id)

\* C1 witness: a completed run wrote rows for a customer and left out an
\* active offer that the margin strategy proposes and that fails exactly
\* one scope dimension for that customer.
C1_Witness ==
    /\ gen_result = "completed"
    /\ \E c \in Customers : \E o \in Range(high_margin_offers(run_date)) :
          /\ Cardinality(FailingDimensions(o, c)) = 1
          /\ PoolRowsOf(c, run_date) # <<>>
          /\ \A i \in 1..Len(candidate_pool) :
                ~(candidate_pool[i].customer_id = c /\ candidate_pool[i].offer_id = o
                  /\ candidate_pool[i].run_date = run_date)

\* C2: no (customer_id, offer_id) pair occurs twice among the candidate_pool
\* rows of one run date.
C2_NoDuplicatePairs ==
    \A i, j \in 1..Len(candidate_pool) :
        (/\ candidate_pool[i].customer_id = candidate_pool[j].customer_id
         /\ candidate_pool[i].offer_id = candidate_pool[j].offer_id
         /\ candidate_pool[i].run_date = candidate_pool[j].run_date) => i = j

\* C2 witness: a completed run stored an offer under an earlier strategy's
\* tag although the margin strategy proposed the same offer again.
C2_Witness ==
    /\ gen_result = "completed"
    /\ \E i \in 1..Len(candidate_pool) :
          /\ candidate_pool[i].run_date = run_date
          /\ candidate_pool[i].strategy # "high_margin"
          /\ candidate_pool[i].offer_id \in Range(high_margin_offers(run_date))

\* C3: no customer has more than CANDIDATE_POOL_SIZE candidate_pool rows for
\* a run date, whatever the strategy limits and the number of active offers.
C3_PoolSizeCapped ==
    \A c \in Customers : \A rd \in RunDates \cup {PrevDate} :
        Len(PoolRowsOf(c, rd)) <= CANDIDATE_POOL_SIZE

\* C3 witness: the strategies claimed more offers for a customer than the
\* cap and the batch to insert holds exactly the cap.
C3_Witness ==
    /\ gen_pc = "insert"
    /\ Len(candidates) > CANDIDATE_POOL_SIZE
    /\ Len(insert_rows) = CANDIDATE_POOL_SIZE

\* C4: a second generate_candidate_pool for the same run date, with the
\* other tables unchanged, leaves as many rows for the run date as the first.
C4_RerunSameCount ==
    (gen_pc = "idle" /\ gen_prev # 0 - 1) =>
        (gen_last = gen_prev /\ Len(PoolRows(run_date)) = gen_prev)

\* C4 witness: two calls have ended and the first one had written rows.
C4_Witness == gen_pc = "idle" /\ gen_prev > 0 /\ gen_result = "completed"

\* C5: the strategies run in the fixed order; a strategy only appends
\* entries tagged with its own name and leaves every entry claimed before
\* it as it is, and the rows built carry the tags of the entries.
StrategyIndex(pc) == CHOOSE k \in 1..Len(Strategies) : Strategies[k] = pc

FirstClaimStep ==
    /\ gen_pc \in Range(Strategies) =>
          LET k == StrategyIndex(gen_pc)
          IN /\ gen_pc' = (IF k = Len(Strategies) THEN "cap" ELSE Strategies[k + 1])
             /\ Len(candidates') >= Len(candidates)
             /\ \A i \in 1..Len(candidates) : candidates'[i] = candidates[i]
             /\ \A i \in (Len(candidates) + 1)..Len(candidates') :
                   candidates'[i].strategy = gen_pc
    /\ gen_pc = "cap" =>
          /\ Len(insert_rows') >= Len(insert_rows)
          /\ \A i \in 1..(Len(insert_rows') - Len(insert_rows)) :
                /\ insert_rows'[Len(insert_rows) + i].offer_id = candidates[i].offer_id
                /\ insert_rows'[Len(insert_rows) + i].strategy = candidates[i].strategy

C5_FirstClaimWins == [][FirstClaimStep]_vars

\* C5 witness: all seven strategies have run for a customer, and an offer
\* of the margin list still carries the tag of the popularity strategy.
C5_Witness ==
    /\ gen_pc = "cap"
    /\ \E i \in 1..Len(candidates) :
          /\ candidates[i].strategy = "business_type_popular"
          /\ candidates[i].offer_id \in Range(high_margin_offers(run_date))

\* ================================== empty catalogue and scoring: claims

\* C6 as stated: when no offer is active on the run date, the call returns
\* normally and candidate_pool is as it was before the call, the rows of
\* the run date included.
C6_PoolUntouched ==
    gen_result = "no_active_offers" => candidate_pool = gen_before

\* C6 amended: when no offer is active on the run date, the call returns
\* normally and inserts nothing; it has deleted the rows of the run date
\* and left the rows of every other date as they were.
C6_OnlyRunDateDeleted ==
    gen_result = "no_active_offers" =>
        candidate_pool = SelectSeq(gen_before, LAMBDA r : r.run_date # run_date)

\* C6 witness: a call found no active offer while the pool held rows of
\* the run date and of an earlier date.
C6_Witness ==
    /\ gen_result = "no_active_offers"
    /\ \E i \in 1..Len(gen_before) : gen_before[i].run_date = run_date
    /\ \E i \in 1..Len(candidate_pool) : candidate_pool[i].run_date = PrevDate

\* The run date's recommendations of a customer, and the customer's rows of
\* the frame the last call scored.
RecsOf(c, rd) == SelectSeq(recommendations, LAMBDA r : r.run_date = rd /\ r.customer_id = c)
ScoredOf(c) == SelectSeq(scored, LAMBDA r : r.customer_id = c)
PositionIn(frame, c, o) ==
    CHOOSE i \in 1..Len(frame) : frame[i].customer_id = c /\ frame[i].offer_id = o

\* C7 as stated: after score_candidates, each customer's ranks for the run
\* date are exactly 1..n, n = min(the customer's candidates at the call,
\* TOP_N_RECOMMENDATIONS), without a repeated rank, in descending score
\* order with equal scores in candidate row order.
C7_DenseRanks ==
    score_result # "none" =>
        \A c \in Customers :
            LET rows == RecsOf(c, run_date)
                n == Min2(Len(ScoredOf(c)), TOP_N_RECOMMENDATIONS)
            IN /\ Len(rows) = n
               /\ {rows[i].rank : i \in 1..Len(rows)} = 1..n
               /\ \A i, j \in 1..Len(rows) :
                     rows[i].rank < rows[j].rank =>
                        \/ rows[i].score > rows[j].score
                        \/ /\ rows[i].score = rows[j].score
                           /\ PositionIn(scored, c, rows[i].offer_id)
                                 < PositionIn(scored, c, rows[j].offer_id)

\* C8 as stated: after any score_candidates call, the run date's
\* recommendations are the rows derived from the pool as it stood at the
\* call, whatever the pool held, an empty pool included.
C8_Overwrite ==
    score_result # "none" =>
        /\ \A i \in 1..Len(recommendations) :
              recommendations[i].run_date = run_date =>
                 \E k \in 1..Len(scored) :
                    /\ scored[k].customer_id = recommendations[i].customer_id
                    /\ scored[k].offer_id = recommendations[i].offer_id
                    /\ scored[k].score = recommendations[i].score
                    /\ scored[k].rank = recommendations[i].rank
        /\ \A k \in 1..Len(scored) :
              scored[k].rank <= TOP_N_RECOMMENDATIONS =>
                 Cardinality({i \in 1..Len(recommendations) :
                                 /\ recommendations[i].run_date = run_date
                                 /\ recommendations[i].customer_id = scored[k].customer_id
                                 /\ recommendations[i].offer_id = scored[k].offer_id}) = 1

\* ================================================== orchestrator: claims

\* The results entries of a step.
EntriesOf(step) == SelectSeq(results, LAMBDA e : e.step = step)

\* C9: run_pipeline never propagates an exception of a step function; the
\* map it returns has, for every step function that was called, one entry
\* with status completed or failed and a duration, and a failed entry
\* carries the message of the exception.
C9_NeverPropagates ==
    /\ pipe_pc # "raised"
    /\ pipe_pc = "returned" =>
          \A k \in 1..Len(executed) :
              LET es == EntriesOf(executed[k].step)
              IN /\ Len(es) = 1
                 /\ es[1].status = (IF executed[k].outcome.raised THEN "failed" ELSE "completed")
                 /\ es[1].duration = "measured"
                 /\ executed[k].outcome.raised => es[1].error = executed[k].outcome.message

\* C9 witness: run_pipeline has returned after all seven steps although a
\* step function had raised before the last one was called.
C9_Witness ==
    /\ pipe_pc = "returned"
    /\ Len(executed) = Len(PipelineSteps)
    /\ \E k \in 1..(Len(executed) - 1) : executed[k].outcome.raised
    /\ ~executed[Len(executed)].outcome.raised

\* The audit rows follow the calls: a "started" row and a terminal row per
\* step function that has ended, and a "started" row of the one running.
AuditTrailMatches ==
    LET base == Len(LegacyRuns)
        n == Len(executed)
    IN /\ Len(pipeline_runs) = base + 2 * n + (IF pipe_phase = "running" THEN 1 ELSE 0)
       /\ \A k \in 1..n :
             /\ pipeline_runs[base + 2 * k - 1].step = executed[k].step
             /\ pipeline_runs[base + 2 * k - 1].status = "started"
             /\ pipeline_runs[base + 2 * k - 1].run_date = run_date
             /\ pipeline_runs[base + 2 * k].step = executed[k].step
             /\ pipeline_runs[base + 2 * k].run_date = run_date
             /\ pipeline_runs[base + 2 * k].status =
                   (IF executed[k].outcome.raised THEN "failed" ELSE "completed")
       /\ pipe_phase = "running" =>
             /\ pipeline_runs[Len(pipeline_runs)].step = pipe_pc
             /\ pipeline_runs[Len(pipeline_runs)].status = "started"

AuditAppendOnly ==
    /\ Len(pipeline_runs') >= Len(pipeline_runs)
    /\ \A i \in 1..Len(pipeline_runs) : pipeline_runs'[i] = pipeline_runs[i]

\* C10: every step gets a "started" row before its function runs and one
\* terminal row after it ends, "completed" if it returned and "failed" if
\* it raised; rows of pipeline_runs are only appended.
C10_AuditTrail == []AuditTrailMatches /\ [][AuditAppendOnly]_vars

\* C10 witness: a step function is running, its "started" row is the last
\* row, and the rows before it end a step that returned and one that raised.
C10_Witness ==
    /\ pipe_phase = "running"
    /\ \E k \in 1..Len(executed) : executed[k].outcome.raised
    /\ \E k \in 1..Len(executed) : ~executed[k].outcome.raised

\* ------------------------------------------------------ feature tables

\* Order histories with lines on the first day of the window, on the run
\* date, after it and before the window, for every customer.
FeatDays == {0 - 88, 1, 2}

\* Order timestamps: midnight of each day, and day 1 at nine in the morning.
FeatStamps == {[day |-> d, hour |-> 0] : d \in FeatDays} \cup {[day |-> 1, hour |-> 9]}
LineKinds ==
    { [product_id |-> 1, tier_applied |-> 1, purchase_mode |-> "business"],
      [product_id |-> 2, tier_applied |-> 3, purchase_mode |-> "individual"] }
FeatLines ==
    {[customer_id |-> c, product_id |-> k.product_id, tier_applied |-> k.tier_applied,
      day |-> t.day, hour |-> t.hour, purchase_mode |-> k.purchase_mode,
      total_amount |-> 50] :
        c \in Customers, t \in FeatStamps, k \in LineKinds}

FeatOrderTables == UpTo(FeatLines, MaxFeatLines)

\* What the table holds before the rebuild: nothing, or the rows of an
\* earlier date, each of them twice.
StaleFeatures ==
    { <<>>, BuildCustomerFeatures({}, PrevDate) \o BuildCustomerFeatures({}, PrevDate) }

\* The discount of an offers row: every mechanism in turn, with a discount
\* value of nothing, a quarter, or more than the whole.
DiscountValues == {0, 25, 150}
TypedOffer(o, shift, value) ==
    [offer_id |-> o, product_id |-> OfferRow(o, Unrestricted).product_id,
     start_date |-> OfferRow(o, Unrestricted).start_date,
     end_date |-> OfferRow(o, Unrestricted).end_date,
     business_type_scope |-> IF o = 2 THEN Text(<<"trader">>) ELSE Null,
     offer_type |-> OfferTypes[((o + shift) % Len(OfferTypes)) + 1],
     discount_value |-> value]

FeatOfferTables ==
    {[o \in Offers |-> TypedOffer(o, shift, value)] : shift \in {0, 3}, value \in DiscountValues}

InitFeat ==
    /\ InitTables
    /\ run_date \in RunDates
    /\ offers \in FeatOfferTables
    /\ order_items \in FeatOrderTables
    /\ impressions = {}
    /\ customer_features \in StaleFeatures
    /\ limits \in {l \in LimitConfigs : l.category_affinity = 1}
    /\ artifact = NoArtifact
    /\ dropped = {}

NextFeat ==
    \/ build_customer_features
    \/ build_offer_features

SpecFeat == InitFeat /\ [][NextFeat]_vars

\* ---------------------------------------------------------- drift runs

\* An artifact trained for the day before the first run date.
TrainedArtifact == [exists |-> TRUE, train_date |-> PrevDate, version |-> 1]

\* check_drift on a customer_features table that is empty or built for the
\* run date, with and without a trained artifact.
InitDrift ==
    /\ InitTables
    /\ run_date \in RunDates
    /\ offers = [o \in Offers |-> OfferRow(o, Unrestricted)]
    /\ order_items \in FeatOrderTables
    /\ impressions = {}
    /\ customer_features \in {<<>>, BuildCustomerFeatures(order_items, run_date)}
    /\ limits \in {l \in LimitConfigs : l.category_affinity = 1}
    /\ artifact \in {NoArtifact, TrainedArtifact}
    /\ dropped = {}

NextDrift == check_drift

SpecDrift == InitDrift /\ [][NextDrift]_vars

\* ------------------------------------------------------- training runs

\* Impression histories: shown before, on and after the first run date, to
\* either customer, for one of two offers, redeemed within the window
\* (label 1) or not.
TrainDays == {0, 1, 2}
TrainImpressions ==
    {[impression_id |-> (c * 100) + (o * 10) + d, customer_id |-> c, offer_id |-> o,
      day |-> d, label |-> l] :
        c \in Customers, o \in {2, 3}, d \in TrainDays, l \in {0, 1}}

InitTrain ==
    /\ InitTables
    /\ run_date \in RunDates
    /\ offers = [o \in Offers |-> OfferRow(o, Unrestricted)]
    /\ order_items = {}
    /\ impressions \in {T \in UpTo(TrainImpressions, MaxImpressions) :
                           \A a, b \in T : a.impression_id = b.impression_id => a = b}
    /\ customer_features = BuildCustomerFeatures(order_items, run_date)
    /\ limits \in {l \in LimitConfigs : l.category_affinity = 1}
    /\ artifact \in {NoArtifact, TrainedArtifact}
    /\ dropped = {}

NextTrain == train_ranker

SpecTrain == InitTrain /\ [][NextTrain]_vars

\* ------------------------------------------------ interaction feature calls

InitInter ==
    /\ InitTables
    /\ run_date \in RunDates
    /\ offers \in FeatOfferTables
    /\ order_items \in UpTo(FeatLines, 1)
    /\ impressions = {}
    /\ customer_features = BuildCustomerFeatures(order_items, run_date)
    /\ limits \in {l \in LimitConfigs : l.category_affinity = 1}
    /\ artifact = NoArtifact
    /\ dropped = {}

NextInter == build_interaction_features

SpecInter == InitInter /\ [][NextInter]_vars

\* Offer and interaction features over catalogues in which every offer has
\* had every discount mechanism.
DepthOfferTables ==
    {[o \in Offers |-> TypedOffer(o, shift, value)] :
        shift \in 0..(Len(OfferTypes) - 1), value \in DiscountValues}

InitDepth ==
    /\ InitTables
    /\ run_date \in RunDates
    /\ offers \in DepthOfferTables
    /\ order_items = {}
    /\ impressions = {}
    /\ customer_features = BuildCustomerFeatures(order_items, run_date)
    /\ limits \in {l \in LimitConfigs : l.category_affinity = 1}
    /\ artifact = NoArtifact
    /\ dropped = {}

NextDepth == build_offer_features \/ build_interaction_features

SpecDepth == InitDepth /\ [][NextDepth]_vars

\* ------------------------------------------------------- schema drift

\* Stores whose feature tables lack up to MaxDropped of the columns the
\* two column lists name.
DroppableColumns == (TrainCustCols \cup TrainOfferCols) \ {"customer_id", "offer_id"}

InitMatrix ==
    /\ InitTables
    /\ run_date \in RunDates
    /\ offers = [o \in Offers |-> OfferRow(o, Unrestricted)]
    /\ order_items = {}
    /\ impressions = {}
    /\ customer_features = BuildCustomerFeatures(order_items, run_date)
    /\ limits \in {l \in LimitConfigs : l.category_affinity = 1}
    /\ artifact = NoArtifact
    /\ dropped \in UpTo(DroppableColumns, MaxDropped)

NextMatrix ==
    \/ BuildTrainingMatrix
    \/ BuildScoringMatrix

SpecMatrix == InitMatrix /\ [][NextMatrix]_vars

\* ------------------------------------------ orchestrator: dependencies

\* The steps that use the output of a step: scoring needs the model and the
\* candidates, the model, the candidates and the scoring need the features,
\* and the evaluation needs the recommendations.
Dependents(step) ==
    CASE step = "features" -> {"model", "candidates", "scoring"}
      [] step = "model" -> {"scoring"}
      [] step = "candidates" -> {"scoring"}
      [] step = "scoring" -> {"evaluate"}
      [] OTHER -> {}

ExecutedSteps == {executed[k].step : k \in 1..Len(executed)}

\* The step function raised, or handed back no output where one is needed.
NoOutput(k) ==
    \/ executed[k].outcome.raised
    \/ executed[k].step = "model" /\ executed[k].outcome.result = "none"

\* C11 as stated: after a step has failed, no step that depends on its
\* output is executed in the same run.
C11_DependentsSkipped ==
    \A k \in 1..Len(executed) :
        executed[k].outcome.raised =>
            \A j \in (k + 1)..Len(executed) : executed[j].step \notin Dependents(executed[k].step)

\* C12 as stated: when run_pipeline has returned, a step was left out only
\* if it depends on a step that failed or gave no output; in particular the
\* candidates and drift steps run after a model step that gave no model.
C12_OnlyDependentsSkipped ==
    pipe_pc = "returned" =>
        \A i \in 1..Len(PipelineSteps) :
            PipelineSteps[i] \notin ExecutedSteps =>
                \E k \in 1..Len(executed) :
                    NoOutput(k) /\ PipelineSteps[i] \in Dependents(executed[k].step)

\* ------------------------------------------------- customer feature rows

FeatureRowsOf(c) == SelectSeq(customer_features, LAMBDA r : r.customer_id = c)

NoWindowOrder(c) == WindowItems(order_items, c, run_date) = {}

OneRowPerCustomer ==
    /\ \A c \in Customers : Len(FeatureRowsOf(c)) = 1
    /\ \A i \in 1..Len(customer_features) : customer_features[i].customer_id \in Customers

ActivityDefaults(r) ==
    /\ r.recency_days = 999
    /\ r.frequency = 0
    /\ r.monetary = 0
    /\ r.tier2_purchase_ratio.num = 0
    /\ r.tier3_purchase_ratio.num = 0
    /\ r.fresh_category_ratio.num = 0

\* C13 as stated: after build_customer_features the table has exactly one
\* row per customer and no other row, and a customer without an order in the
\* window has recency_days 999, frequency 0, monetary 0 and every ratio 0.
C13_RatiosAllZero ==
    "customer_features" \in built =>
        /\ OneRowPerCustomer
        /\ \A c \in Customers : NoWindowOrder(c) =>
              /\ ActivityDefaults(FeatureRowsOf(c)[1])
              /\ FeatureRowsOf(c)[1].business_order_ratio.num = 0

\* C13 (amended): after build_customer_features the table has exactly one
\* row per customer and no other row; a customer without an order in the
\* window has recency_days 999, frequency 0, monetary 0, tier and fresh
\* category ratios 0, and business_order_ratio 1.
C13_OneRowWithDefaults ==
    "customer_features" \in built =>
        /\ OneRowPerCustomer
        /\ \A c \in Customers : NoWindowOrder(c) =>
              /\ ActivityDefaults(FeatureRowsOf(c)[1])
              /\ FeatureRowsOf(c)[1].business_order_ratio.num
                    = FeatureRowsOf(c)[1].business_order_ratio.den

\* The table was rebuilt over a history in which one customer has orders
\* only outside the window and another has an order inside it.
C13_Witness ==
    /\ "customer_features" \in built
    /\ \E c \in Customers :
          /\ NoWindowOrder(c)
          /\ \E oi \in order_items : oi.customer_id = c
    /\ \E c \in Customers : ~NoWindowOrder(c)

\* --------------------------------------------------- offer feature rows

DepthInUnitInterval(r) ==
    /\ r.discount_depth.den > 0
    /\ 0 <= r.discount_depth.num
    /\ r.discount_depth.num <= r.discount_depth.den

\* C14: after build_offer_features every row of offer_features has
\* 0 <= discount_depth <= 1 and days_until_expiry >= 0, whatever the offer's
\* type, discount value and end date.
C14_DepthAndExpiryBounded ==
    "offer_features" \in built =>
        \A i \in 1..Len(offer_features) :
            /\ DepthInUnitInterval(offer_features[i])
            /\ offer_features[i].days_until_expiry >= 0

\* ------------------------------------------------------- drift reports

SnapshotsAvailable == artifact.exists /\ customer_features # <<>>

\* The severity the thresholds 0.10 and 0.25 give a PSI in thousandths.
ThresholdSeverity(psi) ==
    IF psi < 100 THEN "ok" ELSE IF psi < 250 THEN "warn" ELSE "alert"

\* The last call wrote one row per monitored feature, with the severity of
\* its PSI, at the end of drift_log, and returned the warn and alert rows.
OneRowPerFeature ==
    /\ Len(drift_result.written) = Len(DRIFT_FEATURES)
    /\ \A i \in 1..Len(DRIFT_FEATURES) :
          /\ drift_result.written[i].feature_name = DRIFT_FEATURES[i]
          /\ drift_result.written[i].severity
                = ThresholdSeverity(drift_result.written[i].psi_value)
          /\ drift_log[Len(drift_log) - Len(DRIFT_FEATURES) + i] = drift_result.written[i]

ReturnsWarnAndAlert ==
    /\ \A i \in 1..Len(drift_result.alerts) :
          /\ drift_result.alerts[i].severity \in {"warn", "alert"}
          /\ drift_result.alerts[i] \in Range(drift_result.written)
    /\ \A i \in 1..Len(drift_result.written) :
          drift_result.written[i].severity \in {"warn", "alert"} =>
              drift_result.written[i] \in Range(drift_result.alerts)

SnapshotColumn(ref, feature) == Column(BuildCustomerFeatures(order_items, ref), feature)

C17_EmptyTrainingSet ==
    (train_result.called /\ train_result.rows = 0) =>
        /\ ~train_result.raised
        /\ train_result.model = "none"
        /\ train_result.metrics = {}
        /\ artifact = train_result.before

\* train_ranker found no training row although impressions exist (all shown
\* after the run date) and an artifact of an earlier training is on disk.
C17_Witness ==
    /\ train_result.called
    /\ train_result.rows = 0
    /\ impressions # {}
    /\ artifact = TrainedArtifact

\* ------------------------------------------- interaction feature frames

SentinelDefaults(r) ==
    /\ r.bought_product_before = 0
    /\ r.days_since_last_cat_purchase = 999
    /\ r.category_affinity_score.num = 0

\* C18: build_interaction_features does not raise; for an empty pair list
\* the frame is empty with the eight columns; a pair with an unknown offer id
\* gets the sentinel defaults; the frame has one row per input pair, in
\* order; no table is written.
C18_DegenerateInput ==
    inter_result.called =>
        /\ ~inter_result.frame.raised
        /\ inter_result.frame.columns = InteractionColumns
        /\ Len(inter_result.frame.columns) = 8
        /\ Len(inter_result.frame.rows) = Len(inter_result.pairs)
        /\ \A i \in 1..Len(inter_result.pairs) :
              /\ inter_result.frame.rows[i].customer_id = inter_result.pairs[i].customer_id
              /\ inter_result.frame.rows[i].offer_id = inter_result.pairs[i].offer_id
              /\ inter_result.pairs[i].offer_id \notin DOMAIN offers
                    => SentinelDefaults(inter_result.frame.rows[i])
        /\ StoreTables = inter_result.before

\* The last call got a pair with an unknown offer id next to a pair whose
\* customer bought the offer's product.
C18_Witness ==
    /\ inter_result.called
    /\ \E i \in 1..Len(inter_result.pairs) : inter_result.pairs[i].offer_id \notin DOMAIN offers
    /\ \E i \in 1..Len(inter_result.frame.rows) :
          inter_result.frame.rows[i].bought_product_before = 1

\* ------------------------------------------------------- strategy tags

\* C19: every strategy tag generate_candidate_pool writes to candidate_pool
\* is one of category_affinity, segment_popular, repeat_purchase, high_margin.
C19_FourTags ==
    \A i \in 1..Len(PoolRows(run_date)) :
        PoolRows(run_date)[i].strategy
            \in {"category_affinity", "segment_popular", "repeat_purchase", "high_margin"}

\* ---------------------------------------------------- matrix columns

\* C20: the feature matrix has the same columns in the same order at
\* scoring as at training, namely FEATURE_COLUMNS, whatever columns the
\* feature tables lack.
C20_SameColumns ==
    (train_matrix.built /\ score_matrix.built) =>
        /\ train_matrix.columns = FEATURE_COLUMNS
        /\ score_matrix.columns = train_matrix.columns

\* ---------------------------------------------------------------- C21

\* C21: in the training set built by build_training_set the negatives are at
\* most NEGATIVE_SAMPLE_RATIO times the positives, for every count of labeled
\* positives and negatives, zero positives included.
C21_NegativesCapped ==
    train_result.called =>
        train_result.labels.negatives <= NEGATIVE_SAMPLE_RATIO * train_result.labels.positives

\* ---------------------------------------------------------------- C22

\* The order lines of a customer placed on a calendar day of the 90 days
\* that end with run_date, at any time of that day.
CalendarWindow(c) ==
    {oi \in order_items : /\ oi.customer_id = c
                          /\ oi.day <= run_date
                          /\ JULIANDAY(oi.day, oi.hour) > JULIANDAY(run_date - LOOKBACK_DAYS, 0)}

\* C22: the customer aggregates cover the 90 days that end at run_date
\* inclusive: after build_customer_features every order of the calendar day
\* run_date, at any time of day, is counted in frequency and monetary, and no
\* order dated after run_date or more than 90 days before it is.
C22_RunDateOrdersCounted ==
    "customer_features" \in built =>
        \A c \in Customers :
            /\ FeatureRowsOf(c)[1].frequency = Cardinality(CalendarWindow(c))
            /\ FeatureRowsOf(c)[1].monetary = SumAmount(CalendarWindow(c))
            /\ (CalendarWindow(c) # {}) => FeatureRowsOf(c)[1].recency_days # 999

\* ---------------------------------------------------------------- C23

\* The customer bought the offer's product in an order dated between
\* run_date - 90 days and run_date.
BoughtInWindow(c, o) ==
    \E oi \in order_items :
        /\ oi.customer_id = c
        /\ oi.product_id = offers[o].product_id
        /\ oi.day >= run_date - LOOKBACK_DAYS
        /\ oi.day <= run_date

\* C23: every candidate_pool row of the run tagged repeat_purchase is an
\* offer on a product the customer bought in an order dated between
\* run_date - 90 days and run_date; an order dated after run_date never makes
\* an offer a repeat_purchase candidate.
C23_RepeatWithinWindow ==
    \A i \in 1..Len(candidate_pool) :
        (candidate_pool[i].run_date = run_date /\ candidate_pool[i].strategy = "repeat_purchase")
            => BoughtInWindow(candidate_pool[i].customer_id, candidate_pool[i].offer_id)

\* ---------------------------------------------------------------- C24

\* A customer without a purchase and without an impression.
NoHistory(c) ==
    /\ \A oi \in order_items : oi.customer_id # c
    /\ \A i \in impressions : i.customer_id # c

\* The offers of the global margin list that are eligible for the customer.
EligibleMargin(c) ==
    {o \in Range(high_margin_offers(run_date)) : is_eligible(o, c, run_date)}

\* The call ends: the last batch is inserted and committed.
GenCompletes == gen_pc = "insert" /\ gen_result' = "completed"

\* C24 as stated: a customer without purchase and impression history for
\* whom an offer of the margin list is active and eligible has a row tagged
\* high_margin when generate_candidate_pool has ended.
C24_HighMarginRow ==
    [][GenCompletes =>
          \A c \in Customers : (NoHistory(c) /\ EligibleMargin(c) # {}) =>
              \E i \in 1..Len(candidate_pool') :
                  /\ candidate_pool'[i].customer_id = c
                  /\ candidate_pool'[i].run_date = run_date
                  /\ candidate_pool'[i].strategy = "high_margin"]_vars

\* C24 (amended): such a customer has a row for every eligible offer of the
\* margin list when generate_candidate_pool has ended, tagged high_margin
\* unless an earlier strategy claimed the offer first.
C24_MarginOffersInPool ==
    [][GenCompletes =>
          \A c \in Customers : NoHistory(c) =>
              \A o \in EligibleMargin(c) :
                  \E i \in 1..Len(candidate_pool') :
                      /\ candidate_pool'[i].customer_id = c
                      /\ candidate_pool'[i].run_date = run_date
                      /\ candidate_pool'[i].offer_id = o
                      /\ candidate_pool'[i].strategy \in
                            {"category_affinity", "business_type_popular",
                             "repeat_purchase", "high_margin"}]_vars

\* C24 witness: the call has ended and a customer without history holds an
\* eligible offer of the margin list under the tag of the first strategy.
C24_Witness ==
    /\ gen_pc = "idle"
    /\ gen_result = "completed"
    /\ \E c \in Customers :
          /\ NoHistory(c)
          /\ \E i \in 1..Len(candidate_pool) :
                /\ candidate_pool[i].customer_id = c
                /\ candidate_pool[i].run_date = run_date
                /\ candidate_pool[i].offer_id \in EligibleMargin(c)
                /\ candidate_pool[i].strategy = "category_affinity"

\* ---------------------------------------------------------------- C25

SameFraction(a, b) == a.num * b.den = b.num * a.den

\* The price of the offer's product.
PriceOf(o) == products[offers[o].product_id].tier1_price

\* percentage -> value/100 and fixed_amount -> min(1, value/price).
ValueDepth(o, depth) ==
    /\ offers[o].offer_type = "percentage" =>
          SameFraction(depth, [num |-> offers[o].discount_value, den |-> 100])
    /\ offers[o].offer_type = "fixed_amount" =>
          IF offers[o].discount_value >= PriceOf(o)
          THEN SameFraction(depth, One)
          ELSE SameFraction(depth, [num |-> offers[o].discount_value, den |-> PriceOf(o)])

\* The depth of the mechanism does not depend on discount_value.
ConstantDepth(o, depth) ==
    \A v \in DiscountValues :
        SameFraction(depth, DiscountDepth(offers[o].offer_type, v, PriceOf(o)))

\* The frame rows of the last build_interaction_features call carry the
\* depth of the offer_features row of the same offer.
SameDepthInFrame ==
    (inter_result.called /\ "offer_features" \in built) =>
        \A i \in 1..Len(inter_result.frame.rows) :
            \A j \in 1..Len(offer_features) :
                (/\ inter_result.frame.rows[i].offer_id = offer_features[j].offer_id
                 /\ inter_result.frame.rows[i].offer_id \in DOMAIN offers)
                    => inter_result.frame.rows[i].discount_depth_vs_usual
                            = offer_features[j].discount_depth

\* C25 as stated: discount_depth follows the formula table: percentage gives
\* value/100, fixed_amount gives min(1, value/tier1_price), and buy_x_get_y,
\* bundle, volume_bonus and free_gift each give a constant that does not
\* depend on discount_value; build_interaction_features uses the same depth
\* for the same offer.
C25_FixedConstants ==
    /\ "offer_features" \in built =>
          \A j \in 1..Len(offer_features) :
              LET o == offer_features[j].offer_id
              IN /\ ValueDepth(o, offer_features[j].discount_depth)
                 /\ offers[o].offer_type \in {"buy_x_get_y", "bundle", "volume_bonus", "free_gift"}
                       => ConstantDepth(o, offer_features[j].discount_depth)
    /\ SameDepthInFrame

\* C25 (amended): percentage and volume_bonus give value/100, fixed_amount
\* gives min(1, value/tier1_price), buy_x_get_y 0.50, bundle 0.30 and
\* free_gift 0.20 whatever the discount_value; build_interaction_features
\* uses the same depth for the same offer.
C25_FormulaTable ==
    /\ "offer_features" \in built =>
          \A j \in 1..Len(offer_features) :
              LET o == offer_features[j].offer_id
                  depth == offer_features[j].discount_depth
              IN /\ ValueDepth(o, depth)
                 /\ offers[o].offer_type = "volume_bonus" =>
                       SameFraction(depth, [num |-> offers[o].discount_value, den |-> 100])
                 /\ offers[o].offer_type = "buy_x_get_y" => SameFraction(depth, [num |-> 1, den |-> 2])
                 /\ offers[o].offer_type = "bundle" => SameFraction(depth, [num |-> 3, den |-> 10])
                 /\ offers[o].offer_type = "free_gift" => SameFraction(depth, [num |-> 1, den |-> 5])
    /\ SameDepthInFrame

\* C25 witness: both features are built and the frame holds a row of a
\* volume_bonus offer with a discount_value of 25, next to a bundle row in
\* offer_features.
C25_Witness ==
    /\ "offer_features" \in built
    /\ inter_result.called
    /\ \E i \in 1..Len(inter_result.frame.rows) :
          LET o == inter_result.frame.rows[i].offer_id
          IN /\ o \in DOMAIN offers
             /\ offers[o].offer_type = "volume_bonus"
             /\ offers[o].discount_value = 25
             /\ inter_result.frame.rows[i].discount_depth_vs_usual.num = 25
    /\ \E j \in 1..Len(offer_features) : offer_features[j].offer_type = "bundle"

\* ---------------------------------------------------------------- C26

\* The rows a batch of one customer writes: the seven strategies in order,
\* then the cap.
BatchRows(c) ==
    CappedRows(
        OwnBrandSwitch(
            CrossSell(
                TierUpgrade(
                    HighMargin(
                        RepeatPurchase(
                            BusinessTypePopular(
                                CategoryAffinity(<<>>, c, run_date), c, run_date),
                            c, run_date),
                        c, run_date),
                    c, run_date),
                c, run_date),
            c, run_date),
        c, run_date)

\* C26: generate_candidate_pool inserts and commits each customer batch
\* before it processes the next: when it has failed while processing batch
\* k, the rows of the batches 1..k-1 for the run_date are in candidate_pool.
C26_CommittedBatchesRemain ==
    gen_result = "failed" =>
        \A j \in 1..(gen_cust - 1) :
            \A r \in Range(BatchRows(CustomerAt(j))) :
                \E i \in 1..Len(candidate_pool) : candidate_pool[i] = r

\* C26 witness: the call failed in the second batch and the first batch
\* had written rows.
C26_Witness ==
    /\ gen_result = "failed"
    /\ gen_cust = 2
    /\ BatchRows(CustomerAt(1)) # <<>>
    /\ CountPool(candidate_pool, run_date) = Len(BatchRows(CustomerAt(1)))

\* ---------------------------------------------------------------- C27

\* The order of the steps the claim states.
StatedOrder == <<"features", "candidates", "model", "scoring", "drift", "evaluate">>

StatedIndex(step) == CHOOSE i \in 1..Len(StatedOrder) : StatedOrder[i] = step

\* The audit rows of this run, in the order they were written.
RunRows == SubSeq(pipeline_runs, Len(LegacyRuns) + 1, Len(pipeline_runs))

\* C27: run_pipeline starts the steps in the order feature build, candidate
\* generation, model train-or-load, scoring, drift check, evaluation, each
\* after the previous one has ended; in particular the candidates step is
\* started before the model step.
C27_StatedStepOrder ==
    /\ \A i \in 1..Len(RunRows) : \A j \in (i + 1)..Len(RunRows) :
          (/\ RunRows[i].status = "started" /\ RunRows[j].status = "started"
           /\ RunRows[i].step \in Range(StatedOrder) /\ RunRows[j].step \in Range(StatedOrder))
              => StatedIndex(RunRows[i].step) < StatedIndex(RunRows[j].step)
    /\ \A j \in 2..Len(RunRows) :
          RunRows[j].status = "started" =>
              /\ RunRows[j - 1].status \in {"completed", "failed"}
              /\ RunRows[j - 1].step # RunRows[j].step
    /\ \A j \in 1..Len(RunRows) :
          (RunRows[j].status = "started" /\ RunRows[j].step = "model") =>
              \E i \in 1..(j - 1) :
                  RunRows[i].status = "started" /\ RunRows[i].step = "candidates"

\* ---------------------------------------------------------- serving layer

\* generate_candidate_pool as one step of the run: the table once the
\* run_date's rows are deleted and the first k batches are committed.
PoolAfterBatches(k) ==
    InsertPool(DeletePool(candidate_pool, run_date),
               Concat([j \in 1..k |-> BatchRows(CustomerAt(j))]))

\* _run_step with the step function's writes: the candidates step commits
\* all its batches, or raises before the delete or after some of them; the
\* scoring step deletes, appends and commits in one transaction, or raises
\* and leaves the table alone or without the run_date's rows (the pending
\* DELETE is committed with the 'failed' audit row).
RunStepWrites(outcome) ==
    /\ RunStepReturns(outcome)
    /\ IF pipe_pc = "candidates"
       THEN IF outcome.raised
            THEN \/ UNCHANGED candidate_pool
                 \/ \E k \in 0..(NCustomers - 1) : candidate_pool' = PoolAfterBatches(k)
            ELSE candidate_pool' = PoolAfterBatches(NCustomers)
       ELSE UNCHANGED candidate_pool
    /\ IF pipe_pc = "scoring" /\ ~outcome.raised /\ LoadCandidates(run_date) # <<>>
       THEN \E clf \in Models :
               /\ scored' = ScoredFrame(LoadCandidates(run_date), clf)
               /\ recommendations' =
                     DeleteRecommendations(recommendations, run_date) \o TopN(scored', run_date)
               /\ score_result' = "written"
       ELSE IF pipe_pc = "scoring" /\ outcome.raised
       THEN /\ \/ UNCHANGED recommendations
               \/ recommendations' = DeleteRecommendations(recommendations, run_date)
            /\ UNCHANGED <<scored, score_result>>
       ELSE UNCHANGED <<recommendations, scored, score_result>>
    /\ UNCHANGED <<storeVars, mlVars, served, genVars, edits>>

\* SELECT MAX(run_date) FROM recommendations
MaxRunDate(recs) ==
    CHOOSE d \in {recs[i].run_date : i \in 1..Len(recs)} :
        \A i \in 1..Len(recs) : recs[i].run_date <= d

\* WHERE r.customer_id = ? AND r.run_date = ? ORDER BY r.rank ASC
RecommendationRows(c, rd) ==
    LET mine == SelectSeq(recommendations, LAMBDA r : r.customer_id = c /\ r.run_date = rd)
    IN Concat([k \in 1..TOP_N_RECOMMENDATIONS |-> SelectSeq(mine, LAMBDA r : r.rank = k)])

\* GET /recommendations?customer_id=c without a run_date, on a connection of
\* its own: 404 when the table is empty, the customer is unknown or has no
\* row for the latest run_date, else the rows of that date.
get_recommendations(c) ==
    /\ ~served.called
    /\ served' =
          IF recommendations = <<>>
          THEN [called |-> TRUE, customer_id |-> c, status |-> 404, run_date |-> 0,
                rows |-> <<>>, during |-> pipe_pc]
          ELSE LET rd == MaxRunDate(recommendations)
               IN IF c \notin Customers \/ RecommendationRows(c, rd) = <<>>
                  THEN [called |-> TRUE, customer_id |-> c, status |-> 404, run_date |-> rd,
                        rows |-> <<>>, during |-> pipe_pc]
                  ELSE [called |-> TRUE, customer_id |-> c, status |-> 200, run_date |-> rd,
                        rows |-> RecommendationRows(c, rd), during |-> pipe_pc]
    /\ UNCHANGED <<storeVars, mlVars, candidate_pool, recommendations, scored, score_result,
                   genVars, edits, pipeVars>>

\* A daily run with a request of the serving layer at any point of it.
InitServe == InitPipe

NextServe ==
    \/ RunPipelineBegin
    \/ RunStepStarted
    \/ \E outcome \in AllOutcomes : RunStepWrites(outcome)
    \/ \E c \in Customers \cup {NCustomers + 1} : get_recommendations(c)

SpecServe == InitServe /\ [][NextServe]_vars

\* ---------------------------------------------------------------- C28

\* C28: a request of the serving layer without a run_date that is answered
\* while run_pipeline is in progress gets the rows of the last completed
\* run, never rows of the run_date whose run is still in progress.
C28_NoRowsOfRunInProgress ==
    (served.called /\ served.status = 200 /\ served.during \in Range(PipelineSteps))
        => served.run_date # run_date

\* ---------------------------------------------------------------- C29

\* C29: in build_training_set the feature joins neither drop nor multiply
\* examples: X has exactly one row per row of the sampled training set, also
\* when the same (customer_id, offer_id) pair is in the training set with
\* label 1 and with label 0.
C29_OneRowPerExample ==
    train_result.called => train_result.x_rows = train_result.rows

\* ---------------------------------------------------------------- C30

\* The model step ended without raising and without a model.
ModelStepGaveNone ==
    \E k \in 1..Len(executed) :
        /\ executed[k].step = "model"
        /\ ~executed[k].outcome.raised
        /\ executed[k].outcome.result = "none"

\* C30: when the model step returns no model without raising, run_pipeline
\* records the model step as completed in pipeline_runs and in the map it
\* returns, executes none of candidates, scoring, drift and evaluate, closes
\* the connection, and returns a map with the behavior, features and model
\* entries only.
C30_AbortAfterNoModel ==
    (pipe_pc = "returned" /\ ModelStepGaveNone) =>
        /\ RunRows[Len(RunRows)].step = "model"
        /\ RunRows[Len(RunRows)].status = "completed"
        /\ Len(EntriesOf("model")) = 1
        /\ EntriesOf("model")[1].status = "completed"
        /\ ExecutedSteps \cap {"candidates", "scoring", "drift", "evaluate"} = {}
        /\ \A i \in 1..Len(RunRows) :
              RunRows[i].step \notin {"candidates", "scoring", "drift", "evaluate"}
        /\ conn = "closed"
        /\ Len(results) = 3
        /\ {results[i].step : i \in 1..Len(results)} = {"behavior", "features", "model"}

\* C30 witness: run_pipeline has returned after a model step that completed
\* without a model.
C30_Witness ==
    /\ pipe_pc = "returned"
    /\ ModelStepGaveNone
    /\ conn = "closed"

====
